---- MODULE Spec2Model ----
\* Serial command channel of the Raspberry Pi robot controller:
\*   main_raspy.py      voice controller (init_serial, send_to_robot, main)
\*   serial_monitor.py  operator monitor (ESP32SerialMonitor)
\* Text is a sequence of one-character strings; time is counted in ticks of
\* 0.05 s, the shortest sleep of the code.
EXTENDS Integers, Sequences, FiniteSets, TLC

\* ------------------------------------------------------------------ bounds
\* Lines the remote device may still emit (a device with devEndless ignores it).
MaxLines == 2
\* Lines the input buffer of the serial handle holds before they are read.
MaxBuf == 1
\* Operator interrupts (Ctrl-C) delivered to the voice controller.
MaxInterrupts == 1
\* Commands the dialogue pipeline hands to the voice controller's main loop.
MaxCmds == 1
\* Lines the operator types into the monitor.
MaxInputs == 2
\* Serial ports the operating system enumerates at one discovery call.
MaxPorts == 2

\* ------------------------------------------------------- program constants
\* max_timeout = 3.0 s of send_to_robot and of init_serial, in ticks.
WindowTicks == 60
\* the 1.0 s quiet period of send_to_robot's break, in ticks.
QuietTicks == 20
\* time.sleep(0.05) of the collection loop, in ticks.
PollTicks == 1
\* time.sleep(0.1) of the handshake loop, in ticks.
HandshakePollTicks == 2
\* time.sleep(0.05) of the indicator flash on each response, in ticks.
FlashTicks == 1
\* the upper end of 0 <= speed <= 100 in interactive_mode.
SpeedMax == 100

\* -------------------------------------------------------------------- text
S_FORWARD == <<"F", "O", "R", "W", "A", "R", "D">>
S_BACKWARD == <<"B", "A", "C", "K", "W", "A", "R", "D">>
S_LEFT == <<"L", "E", "F", "T">>
S_RIGHT == <<"R", "I", "G", "H", "T">>
S_STOP == <<"S", "T", "O", "P">>
S_SPEED == <<"S", "P", "E", "E", "D">>
S_STATUS == <<"S", "T", "A", "T", "U", "S">>
S_meter == <<"m", "e", "t", "e", "r">>
S_degree == <<"d", "e", "g", "r", "e", "e">>
S_percent == <<"p", "e", "r", "c", "e", "n", "t">>
S_none == <<"n", "o", "n", "e">>
S_continuous == <<"c", "o", "n", "t", "i", "n", "u", "o", "u", "s">>

Digit == <<"0", "1", "2", "3", "4", "5", "6", "7", "8", "9">>

RECURSIVE NatStr(_)
\* str() of a natural number: its decimal digits.
NatStr(n) ==
  IF n < 10 THEN <<Digit[n + 1]>>
  ELSE NatStr(n \div 10) \o <<Digit[(n % 10) + 1]>>

\* str() of a Python int.
IntStr(n) == IF n < 0 THEN <<"-">> \o NatStr(0 - n) ELSE NatStr(n)

\* A float written with a decimal comma, as some locales do.
FloatStrLocale(t) ==
  LET a == IF t < 0 THEN 0 - t ELSE t
      body == NatStr(a \div 10) \o <<",">> \o <<Digit[(a % 10) + 1]>>
  IN  IF t < 0 THEN <<"-">> \o body ELSE body

\* str() of a Python float with at most one decimal digit, held in tenths:
\* 5.0 -> "5.0", 2.5 -> "2.5", -1.0 -> "-1.0".
FloatStr(t) ==
  LET a == IF t < 0 THEN 0 - t ELSE t
      body == NatStr(a \div 10) \o <<".">> \o <<Digit[(a % 10) + 1]>>
  IN  IF t < 0 THEN <<"-">> \o body ELSE body

\* A number as Python holds it: an int n, or a float of n tenths.
IntV(n) == [k |-> "int", n |-> n]
FloatV(t) == [k |-> "float", n |-> t]

\* f"{value}" of a number.
FormatValue(v) == IF v.k = "int" THEN IntStr(v.n) ELSE FloatStr(v.n)

\* f"{command},{value},{unit}\n"
EncodeLine(command, value, unit) ==
  command \o <<",">> \o FormatValue(value) \o <<",">> \o unit \o <<"\n">>

\* b"STATUS,0,none\n", the probe init_serial writes.
ProbeLine == S_STATUS \o <<",", "0", ",">> \o S_none \o <<"\n">>

\* ------------------------------------------------------------------- state
VARIABLES
  program,          \* the script this process runs
  pc,               \* voice controller: the statement about to run
  ser,              \* global ser: "None", "open" (is_open) or "closed"
  SERIAL_PORT,      \* global SERIAL_PORT: "None" or a device path
  led,              \* <<status, ready>> last given to set_status_led
  elapsed,          \* time.time() - timeout_start, in ticks
  response_count,   \* send_to_robot's response_count
  startup_messages, \* len(startup_messages) of init_serial
  inbuf,            \* lines waiting in the open handle's input buffer
  devLines,         \* lines the remote device may still emit
  devEndless,       \* the remote device never runs out of lines
  intrLeft,         \* operator interrupts still to come
  cmdsLeft,         \* commands the dialogue pipeline may still produce
  command_json,     \* argument of the running send_to_robot call
  sendCaller,       \* call site of the running send_to_robot call
  initCaller,       \* call site of the running init_serial call
  sendResult,       \* value returned by send_to_robot
  serial_ok,        \* value returned by init_serial
  failAt,           \* operation whose exception send_to_robot caught last
  initFailAt,       \* operation whose failure init_serial reported
  nClose,           \* ser.close() calls of the running send_to_robot call
  nReopen,          \* init_serial() calls of the running send_to_robot call
  attempt,          \* how far the running call's reconnect attempt has got
  written,          \* lines put on the wire by the running channel call
  initTrace,        \* steps the running init_serial call has completed
  finOpen,          \* main's finally found the connection open
  spoken,           \* what main said in the current turn of its loop
  cycles,           \* reconnect cycles of the process so far, where counted
  c_pc,             \* encoding on its own: idle, or the function that ran
  c_cmd,            \* the command descriptor handed to it
  c_keys,           \* the keys the JSON object of send_to_robot holds
  c_line,           \* the line it built
  gpio,             \* whether the GPIO pins of the indicator can be driven
  m_pc,             \* operator monitor: the statement about to run
  m_ser,            \* self.ser: "None", "open" or "closed"
  m_opens,          \* serial.Serial() handles the monitor has opened
  m_readers,        \* tasks of the monitor that have called readline
  running,          \* self.running
  monitor_thread,   \* self.monitor_thread: "None", "alive" or "dead"
  t_pc,             \* monitor_serial: the statement about to run
  m_last,           \* the line the monitor put on the wire last
  user_input,       \* the line the operator typed last, as typed
  m_sent,           \* bytes written for user_input (<<>> when none)
  m_result,         \* value returned by the last send_command / send_raw
  m_devLines,       \* lines the device may still emit to the monitor
  m_logged,         \* lines monitor_serial has printed
  inputsLeft,       \* lines the operator may still type
  GPIO_UART_ENABLE, \* the configuration flag of main_raspy.py
  s0_exists,        \* os.path.exists('/dev/ttyS0')
  enable_uart,      \* /boot/config.txt is readable and holds enable_uart=1
  ports,            \* serial.tools.list_ports.comports(), in its order
  d_pc,             \* port discovery on its own: the function last applied
  found             \* and the path it returned

\* The machine the discovery functions look at, and what they returned.
osVars == <<GPIO_UART_ENABLE, s0_exists, enable_uart, ports, d_pc, found>>

\* What no statement changes: the script run and the kind of remote device.
\* The encoding of one descriptor, run on its own.
codecVars == <<c_pc, c_cmd, c_keys, c_line>>

envVars == <<program, devEndless, gpio, osVars, codecVars>>

\* The state of the voice controller.
voiceState ==
  <<attempt, pc, ser, SERIAL_PORT, led, elapsed, response_count,
    startup_messages, inbuf, devLines, intrLeft, cmdsLeft, command_json,
    sendCaller, initCaller, sendResult, serial_ok, failAt, initFailAt, nClose,
    nReopen, written, initTrace, finOpen, spoken, cycles>>

voiceVars == <<envVars, voiceState>>

monVars ==
  <<m_pc, m_ser, m_opens, running, monitor_thread, t_pc, m_last, user_input,
    m_sent, m_result, m_devLines, m_logged, inputsLeft, m_readers>>

vars == <<voiceVars, monVars>>

\* ------------------------------------------------------- remote device
Min(a, b) == IF a < b THEN a ELSE b

\* What readline() can return: a line with text, or one that strips to "".
Items == {"line", "blank"}

RECURSIVE Extensions(_, _)
\* buf followed by at most k further items.
Extensions(buf, k) ==
  IF k = 0 THEN {buf}
  ELSE {buf} \cup UNION {Extensions(Append(buf, x), k - 1) : x \in Items}

\* Lines the device can add behind buf while the program sleeps.
ArriveCap(buf) ==
  IF ser # "open" THEN 0
  ELSE Min(MaxBuf - Len(buf), IF devEndless THEN MaxBuf ELSE devLines)

\* The passing of time in a time.sleep(): the device may emit lines meanwhile.
ArriveOn(buf) ==
  \E b \in Extensions(buf, ArriveCap(buf)) :
    /\ inbuf' = b
    /\ devLines' = IF devEndless THEN devLines
                   ELSE devLines - (Len(b) - Len(buf))

Arrive == ArriveOn(inbuf)

\* ------------------------------------------- command source (main_raspy)
\* The text extract_robot_command hands to send_to_robot: a brace-delimited
\* span that json.loads accepts (valid, with the keys it holds) or rejects.
JsonObj(keys, c, v, u) ==
  [valid |-> TRUE, keys |-> keys, command |-> c, value |-> v, unit |-> u]

AllKeys == {"command", "value", "unit"}

\* '{"command": "STOP", "value": 0, "unit": "none"}'
StopJson == JsonObj(AllKeys, S_STOP, IntV(0), S_none)

BadJson ==
  [valid |-> FALSE, keys |-> {}, command |-> S_STOP, value |-> IntV(0),
   unit |-> S_none]

\* Replies of the dialogue model that hold a brace-delimited span: two of
\* the prompt's examples, a speed outside 0-100, and a span that is not JSON.
AiOutputs ==
  { JsonObj(AllKeys, S_FORWARD, IntV(5), S_meter),
    JsonObj(AllKeys, S_FORWARD, IntV(-1), S_continuous),
    JsonObj(AllKeys, S_SPEED, IntV(150), S_percent),
    BadJson }

\* A send_to_robot whose default command is a motion.
serial_cmd_forward(j) ==
  EncodeLine(IF "command" \in j.keys THEN j.command ELSE S_FORWARD,
             IF "value" \in j.keys THEN j.value ELSE IntV(0),
             IF "unit" \in j.keys THEN j.unit ELSE S_none)

\* cmd_data.get(key, default) for the three keys, then the f-string.
serial_cmd(j) ==
  EncodeLine(IF "command" \in j.keys THEN j.command ELSE S_STOP,
             IF "value" \in j.keys THEN j.value ELSE IntV(0),
             IF "unit" \in j.keys THEN j.unit ELSE S_none)

StopLine == serial_cmd(StopJson)

\* ------------------------------------------------------- port discovery
\* GPIO_UART_PORT = '/dev/ttyS0'
GPIO_UART_PORT == "/dev/ttyS0"

\* priority_ports of find_esp32_port_rpi and of find_esp32_port
priority_ports ==
  <<GPIO_UART_PORT, "/dev/ttyUSB0", "/dev/ttyUSB1", "/dev/ttyACM0",
    "/dev/ttyACM1">>

\* Device paths a machine may enumerate: three on the priority list, a USB
\* serial node that is not on it, and a node that is neither.
Devices ==
  {GPIO_UART_PORT, "/dev/ttyUSB0", "/dev/ttyACM0", "/dev/ttyUSB2",
   "/dev/ttyAMA0"}

\* 'ttyUSB' in port.device or 'ttyACM' in port.device, for the paths above.
GenericUsb(device) ==
  device \in {"/dev/ttyUSB0", "/dev/ttyUSB1", "/dev/ttyUSB2", "/dev/ttyACM0",
              "/dev/ttyACM1"}

\* An enumerated port: its path, and whether its description or its
\* manufacturer, lowered, holds one of the vendor keywords.
PortInfo == [device : Devices, keyword : BOOLEAN]

\* What comports() may return: up to MaxPorts ports of different paths.
Enumerations ==
  {ps \in UNION {[1..n -> PortInfo] : n \in 0..MaxPorts} :
     \A i, j \in 1..Len(ps) : i # j => ps[i].device # ps[j].device}

\* check_gpio_uart_available: the node exists and the boot configuration
\* enables the UART.
check_gpio_uart_available == s0_exists /\ enable_uart

RECURSIVE PriorityScan(_, _)
\* for port_name in names: for port in ps: if port.device == port_name
PriorityScan(names, ps) ==
  IF names = <<>> THEN "None"
  ELSE IF \E i \in 1..Len(ps) : ps[i].device = Head(names) THEN Head(names)
  ELSE PriorityScan(Tail(names), ps)

RECURSIVE DescriptionScan(_)
\* for port in ps: the first port with a vendor keyword or a USB serial path
DescriptionScan(ps) ==
  IF ps = <<>> THEN "None"
  ELSE IF Head(ps).keyword \/ GenericUsb(Head(ps).device) THEN Head(ps).device
  ELSE DescriptionScan(Tail(ps))

\* if ports: return ports[0].device; return None
FirstPort(ps) == IF ps # <<>> THEN ps[1].device ELSE "None"

\* find_esp32_port_rpi on the enumeration ps.
find_esp32_port_rpi(ps) ==
  IF GPIO_UART_ENABLE /\ check_gpio_uart_available THEN GPIO_UART_PORT
  ELSE IF PriorityScan(priority_ports, ps) # "None"
       THEN PriorityScan(priority_ports, ps)
  ELSE IF DescriptionScan(ps) # "None" THEN DescriptionScan(ps)
  ELSE FirstPort(ps)

\* ESP32SerialMonitor.find_esp32_port on the enumeration ps.
find_esp32_port(ps) ==
  IF s0_exists THEN GPIO_UART_PORT
  ELSE IF PriorityScan(Tail(priority_ports), ps) # "None"
       THEN PriorityScan(Tail(priority_ports), ps)
  ELSE FirstPort(ps)

\* Discovery on its own: find_esp32_port_rpi() is called.
FindPortRpi ==
  /\ d_pc = "idle"
  /\ found' = find_esp32_port_rpi(ports)
  /\ d_pc' = "rpi"
  /\ UNCHANGED <<program, devEndless, gpio, GPIO_UART_ENABLE, s0_exists,
                 enable_uart, ports, codecVars, voiceState, monVars>>

\* Discovery on its own: the monitor's find_esp32_port() is called.
FindPortMonitor ==
  /\ d_pc = "idle"
  /\ found' = find_esp32_port(ports)
  /\ d_pc' = "monitor"
  /\ UNCHANGED <<program, devEndless, gpio, GPIO_UART_ENABLE, s0_exists,
                 enable_uart, ports, codecVars, voiceState, monVars>>

\* What the voice controller's machine enumerates when init_serial looks for
\* a port: nothing, or the USB bridge of the robot.
BootPorts == {<<>>, <<[device |-> "/dev/ttyUSB0", keyword |-> TRUE]>>}

\* ------------------------------------------- status indicator (main_raspy)
\* The two pins after set_status_led(status, ready) called with the pins at
\* l: both GPIO.output calls succeed, or the second raises after the first
\* took effect, or the first raises; except: pass swallows either.
LedOutcomes(l, status, ready) ==
  IF gpio = "works" THEN {<<status, ready>>}
  ELSE {<<status, ready>>, <<status, l[2]>>, l}

set_status_led(status, ready) == led' \in LedOutcomes(led, status, ready)

\* ------------------------------------------------ init_serial (main_raspy)
\* The call init_serial(): its locals start afresh.
CallInit(caller) ==
  /\ initCaller' = caller
  /\ initTrace' = <<>>
  /\ initFailAt' = "none"
  /\ pc' = "i_entry"

\* An init_serial without its except clause: the exception leaves it.
IFailUncaught(op) ==
  /\ led' = led
  /\ serial_ok' = serial_ok
  /\ initFailAt' = op
  /\ pc' = "crashed"

\* except Exception in init_serial: error signal, return False.
IFail(op) ==
  /\ set_status_led(FALSE, FALSE)
  /\ serial_ok' = FALSE
  /\ initFailAt' = op
  /\ pc' = "i_return"

\* An init_serial that returns False for a missing port with the connecting
\* signal still shown.
INoPortKeepsConnecting ==
  /\ set_status_led(TRUE, FALSE)
  /\ serial_ok' = FALSE
  /\ initFailAt' = "port"
  /\ pc' = "i_return"

\* No port found: after the connecting signal of the entry, the error
\* signal and return False.
INoPort ==
  /\ \E l \in LedOutcomes(led, TRUE, FALSE) :
       led' \in LedOutcomes(l, FALSE, FALSE)
  /\ serial_ok' = FALSE
  /\ initFailAt' = "port"
  /\ pc' = "i_return"

\* An init_serial that looks for the port at every call.
NeedsDiscoveryAlways(port) == TRUE

\* if SERIAL_PORT is None
NeedsDiscovery(port) == port = "None"

\* set_status_led(True, False); resolve SERIAL_PORT when it is still None.
IEntry ==
  /\ pc = "i_entry"
  /\ \/ /\ NeedsDiscovery(SERIAL_PORT)
        /\ \E ps \in BootPorts :
             LET p == find_esp32_port_rpi(ps)
             IN  /\ SERIAL_PORT' = p
                 /\ IF p = "None"
                    THEN INoPort
                    ELSE /\ set_status_led(TRUE, FALSE)
                         /\ pc' = "i_open"
                         /\ UNCHANGED <<serial_ok, initFailAt>>
     \/ /\ ~NeedsDiscovery(SERIAL_PORT)
        /\ set_status_led(TRUE, FALSE)
        /\ pc' = "i_open"
        /\ UNCHANGED <<SERIAL_PORT, serial_ok, initFailAt>>
  /\ UNCHANGED <<ser, elapsed, response_count, startup_messages, inbuf,
                 devLines, envVars, intrLeft, cmdsLeft, command_json,
                 sendCaller, initCaller, sendResult, failAt, nClose, nReopen,
                 written, initTrace, finOpen, spoken, cycles, attempt, monVars>>

\* ser = serial.Serial(...): the handle is bound only when the open succeeds.
IOpen ==
  /\ pc = "i_open"
  /\ \/ /\ ser' = "open"
        /\ inbuf' = <<>>
        /\ initTrace' = Append(initTrace, "open")
        /\ pc' = "i_settle"
        /\ UNCHANGED <<led, serial_ok, initFailAt>>
     \/ /\ IFail("open")
        /\ UNCHANGED <<ser, inbuf, initTrace>>
  /\ UNCHANGED <<SERIAL_PORT, elapsed, response_count, startup_messages,
                 devLines, envVars, intrLeft, cmdsLeft, command_json,
                 sendCaller, initCaller, sendResult, failAt, nClose, nReopen,
                 written, finOpen, spoken, cycles, attempt, monVars>>

\* time.sleep(3)
ISettle ==
  /\ pc = "i_settle"
  /\ Arrive
  /\ initTrace' = Append(initTrace, "settle")
  /\ pc' = "i_reset_in"
  /\ UNCHANGED <<ser, SERIAL_PORT, led, elapsed, response_count,
                 startup_messages, envVars, intrLeft, cmdsLeft,
                 command_json, sendCaller, initCaller, sendResult, serial_ok,
                 failAt, initFailAt, nClose, nReopen, written,
                 finOpen, spoken, cycles,
                 attempt, monVars>>

\* ser.reset_input_buffer()
IResetIn ==
  /\ pc = "i_reset_in"
  /\ \/ /\ inbuf' = <<>>
        /\ initTrace' = Append(initTrace, "reset_input_buffer")
        /\ pc' = "i_reset_out"
        /\ UNCHANGED <<led, serial_ok, initFailAt>>
     \/ /\ IFail("reset_input_buffer")
        /\ UNCHANGED <<inbuf, initTrace>>
  /\ UNCHANGED <<ser, SERIAL_PORT, elapsed, response_count, startup_messages,
                 devLines, envVars, intrLeft, cmdsLeft, command_json,
                 sendCaller, initCaller, sendResult, failAt, nClose, nReopen,
                 written, finOpen, spoken, cycles, attempt, monVars>>

\* ser.reset_output_buffer()
IResetOut ==
  /\ pc = "i_reset_out"
  /\ \/ /\ initTrace' = Append(initTrace, "reset_output_buffer")
        /\ pc' = "i_probe"
        /\ UNCHANGED <<led, serial_ok, initFailAt>>
     \/ /\ IFail("reset_output_buffer")
        /\ UNCHANGED initTrace
  /\ UNCHANGED <<ser, SERIAL_PORT, elapsed, response_count, startup_messages,
                 inbuf, devLines, envVars, intrLeft, cmdsLeft,
                 command_json, sendCaller, initCaller, sendResult, failAt,
                 nClose, nReopen, written, finOpen, spoken, cycles,
                 attempt, monVars>>

\* ser.write(b"STATUS,0,none\n")
IProbe ==
  /\ pc = "i_probe"
  /\ \/ /\ written' = Append(written, ProbeLine)
        /\ initTrace' = Append(initTrace, "probe")
        /\ pc' = "i_probe_sleep"
        /\ UNCHANGED <<led, serial_ok, initFailAt>>
     \/ /\ IFail("probe")
        /\ UNCHANGED <<written, initTrace>>
  /\ UNCHANGED <<ser, SERIAL_PORT, elapsed, response_count, startup_messages,
                 inbuf, devLines, envVars, intrLeft, cmdsLeft,
                 command_json, sendCaller, initCaller, sendResult, failAt,
                 nClose, nReopen, finOpen, spoken, cycles, attempt, monVars>>

\* time.sleep(0.5); startup_messages = []; timeout_start = time.time()
IProbeSleep ==
  /\ pc = "i_probe_sleep"
  /\ Arrive
  /\ startup_messages' = 0
  /\ elapsed' = 0
  /\ pc' = "i_loop"
  /\ UNCHANGED <<ser, SERIAL_PORT, led, response_count, envVars, intrLeft,
                 cmdsLeft, command_json, sendCaller, initCaller, sendResult,
                 serial_ok, failAt, initFailAt, nClose, nReopen, written,
                 initTrace, finOpen, spoken, cycles, attempt, monVars>>

\* A handshake loop that runs for the quiet period only.
HandshakeRunningQuiet(e) == e < QuietTicks

\* while (time.time() - timeout_start) < 3.0
HandshakeRunning(e) == e < WindowTicks

\* One turn of the handshake loop, or its end: set_status_led(True, True) and
\* return True.
IPoll ==
  /\ pc = "i_loop"
  /\ \/ /\ ~HandshakeRunning(elapsed)
        /\ set_status_led(TRUE, TRUE)
        /\ serial_ok' = TRUE
        /\ initTrace' = Append(initTrace, "collect")
        /\ pc' = "i_return"
        /\ UNCHANGED <<elapsed, startup_messages, inbuf, devLines, initFailAt>>
     \/ \* ser.in_waiting raises: outside the inner try
        /\ HandshakeRunning(elapsed)
        /\ IFail("poll")
        /\ UNCHANGED <<elapsed, startup_messages, inbuf, devLines, initTrace>>
     \/ \* a line with text: appended, timeout_start reset
        /\ HandshakeRunning(elapsed)
        /\ inbuf # <<>>
        /\ Head(inbuf) = "line"
        /\ inbuf' = Tail(inbuf)
        /\ startup_messages' = Min(startup_messages + 1, MaxLines)
        /\ elapsed' = 0
        /\ UNCHANGED <<pc, led, serial_ok, initFailAt, devLines, initTrace>>
     \/ \* a line that strips to "", or readline raising (except: pass)
        /\ HandshakeRunning(elapsed)
        /\ inbuf # <<>>
        /\ inbuf' = Tail(inbuf)
        /\ UNCHANGED <<pc, led, serial_ok, initFailAt, devLines, initTrace,
                       elapsed, startup_messages>>
     \/ \* nothing waiting: time.sleep(0.1)
        /\ HandshakeRunning(elapsed)
        /\ inbuf = <<>>
        /\ Arrive
        /\ elapsed' = elapsed + HandshakePollTicks
        /\ UNCHANGED <<pc, led, serial_ok, initFailAt, initTrace,
                       startup_messages>>
  /\ UNCHANGED <<ser, SERIAL_PORT, response_count, envVars, intrLeft,
                 cmdsLeft, command_json, sendCaller, initCaller, sendResult,
                 failAt, nClose, nReopen, written, finOpen, spoken, cycles,
                 attempt, monVars>>

\* The locals of a finished init_serial call are gone.
DropInitLocals ==
  /\ startup_messages' = 0
  /\ initTrace' = <<>>
  /\ initFailAt' = "none"

\* A handler that reported success after its reconnect attempt.
HandlerResultTrue == TRUE

\* The handler of send_to_robot ends, whatever became of the attempt, in
\* its last statement: return False
HandlerResult == FALSE

\* init_serial returns: to main's start-up, or into send_to_robot's handler,
\* which ignores the value and returns False.
IReturn ==
  /\ pc = "i_return"
  /\ \/ /\ initCaller = "main"
        /\ pc' = "main_loop"
        /\ UNCHANGED <<sendResult, attempt>>
     \/ /\ initCaller = "reconnect"
        /\ attempt' = "returned"
        /\ sendResult' = HandlerResult
        /\ pc' = "s_return"
  /\ DropInitLocals
  /\ elapsed' = 0
  /\ UNCHANGED <<ser, SERIAL_PORT, led, response_count, inbuf, devLines,
                 envVars, intrLeft, cmdsLeft, command_json, sendCaller,
                 initCaller, serial_ok, failAt, nClose, nReopen, written,
                 finOpen, spoken, cycles, monVars>>

\* ---------------------------------------------- send_to_robot (main_raspy)
\* The call send_to_robot(j): its locals start afresh.
CallSend(j, caller) ==
  /\ command_json' = j
  /\ sendCaller' = caller
  /\ failAt' = "none"
  /\ nClose' = 0
  /\ nReopen' = 0
  /\ attempt' = "none"
  /\ written' = <<>>
  /\ response_count' = 0
  /\ elapsed' = 0
  /\ pc' = "s_entry"

\* The count of a process before any reconnect cycle, and the value of
\* cycles in the runs that keep no count.
NoCycles ==
  [counted |-> TRUE, started |-> 0, write_failed |-> 0, reopened |-> 0,
   aborted |-> 0]
NotCounted == [NoCycles EXCEPT !.counted = FALSE]

\* The handler of send_to_robot is entered after operation op raised.
CycleStarted(c, op) ==
  IF ~c.counted THEN c
  ELSE [c EXCEPT !.started = @ + 1,
                 !.write_failed =
                   IF op \in {"write", "flush"} THEN @ + 1 ELSE @]

\* The reopen attempt of a cycle is made.
CycleReopened(c) ==
  IF ~c.counted THEN c ELSE [c EXCEPT !.reopened = @ + 1]

\* A cycle ends without a reopen attempt.
CycleAborted(c) ==
  IF ~c.counted THEN c ELSE [c EXCEPT !.aborted = @ + 1]

\* except Exception as e: print, set_status_led(False, False), then the
\* reconnect attempt.
SExcept(op) ==
  /\ failAt' = op
  /\ cycles' = CycleStarted(cycles, op)
  /\ set_status_led(FALSE, FALSE)
  /\ pc' = "s_close"

\* if ser and ser.is_open ... json.loads ... set_status_led(False, True)
SEntry ==
  /\ pc = "s_entry"
  /\ \/ \* else branch: not connected
        /\ ser # "open"
        /\ set_status_led(FALSE, FALSE)
        /\ sendResult' = FALSE
        /\ pc' = "s_return"
        /\ UNCHANGED failAt
     \/ \* except json.JSONDecodeError: return False
        /\ ser = "open"
        /\ ~command_json.valid
        /\ failAt' = "json"
        /\ sendResult' = FALSE
        /\ pc' = "s_return"
        /\ UNCHANGED led
     \/ /\ ser = "open"
        /\ command_json.valid
        /\ set_status_led(FALSE, TRUE)
        /\ pc' = "s_flash"
        /\ UNCHANGED <<sendResult, failAt>>
  /\ UNCHANGED <<ser, SERIAL_PORT, elapsed, response_count, startup_messages,
                 inbuf, devLines, envVars, intrLeft, cmdsLeft,
                 command_json, sendCaller, initCaller, serial_ok, initFailAt,
                 nClose, nReopen, written, initTrace,
                 finOpen, spoken, cycles, attempt, monVars>>

\* A flash whose set_status_led lets a GPIO failure out: it reaches the
\* handler of send_to_robot.
SFlashLedRaises ==
  /\ pc = "s_flash"
  /\ Arrive
  /\ \/ /\ led' = <<TRUE, TRUE>>
        /\ pc' = "s_write"
        /\ UNCHANGED <<failAt, cycles>>
     \/ /\ gpio = "flaky"
        /\ SExcept("set_status_led")
  /\ UNCHANGED <<ser, SERIAL_PORT, elapsed, response_count, startup_messages,
                 envVars, intrLeft, cmdsLeft, command_json, sendCaller,
                 initCaller, sendResult, serial_ok, initFailAt,
                 nClose, nReopen, written, initTrace,
                 finOpen, spoken, attempt, monVars>>

\* time.sleep(0.1); set_status_led(True, True)
SFlash ==
  /\ pc = "s_flash"
  /\ Arrive
  /\ set_status_led(TRUE, TRUE)
  /\ pc' = "s_write"
  /\ UNCHANGED <<ser, SERIAL_PORT, elapsed, response_count, startup_messages,
                 envVars, intrLeft, cmdsLeft, command_json, sendCaller,
                 initCaller, sendResult, serial_ok, failAt, initFailAt,
                 nClose, nReopen, written, initTrace,
                 finOpen, spoken, cycles, attempt, monVars>>

\* ser.write(serial_cmd.encode('utf-8'))
SWrite ==
  /\ pc = "s_write"
  /\ \/ /\ written' = Append(written, serial_cmd(command_json))
        /\ pc' = "s_flush"
        /\ UNCHANGED <<led, failAt, cycles>>
     \/ /\ SExcept("write")
        /\ UNCHANGED written
  /\ UNCHANGED <<ser, SERIAL_PORT, elapsed, response_count, startup_messages,
                 inbuf, devLines, envVars, intrLeft, cmdsLeft,
                 command_json, sendCaller, initCaller, sendResult, serial_ok,
                 initFailAt, nClose, nReopen, initTrace,
                 finOpen, spoken, attempt, monVars>>

\* ser.flush()
SFlush ==
  /\ pc = "s_flush"
  /\ \/ /\ pc' = "s_sleep"
        /\ UNCHANGED <<led, failAt, cycles>>
     \/ SExcept("flush")
  /\ UNCHANGED <<ser, SERIAL_PORT, elapsed, response_count, startup_messages,
                 inbuf, devLines, envVars, intrLeft, cmdsLeft,
                 command_json, sendCaller, initCaller, sendResult, serial_ok,
                 initFailAt, nClose, nReopen, written, initTrace,
                 finOpen, spoken,
                 attempt, monVars>>

\* time.sleep(0.3); response_count = 0; timeout_start = time.time()
SSleep ==
  /\ pc = "s_sleep"
  /\ Arrive
  /\ response_count' = 0
  /\ elapsed' = 0
  /\ pc' = "s_loop"
  /\ UNCHANGED <<ser, SERIAL_PORT, led, startup_messages, envVars,
                 intrLeft, cmdsLeft, command_json, sendCaller, initCaller,
                 sendResult, serial_ok, failAt, initFailAt, nClose, nReopen,
                 written, initTrace, finOpen, spoken, cycles, attempt, monVars>>

\* while (time.time() - timeout_start) < max_timeout
CollectRunning(e) == e < WindowTicks

\* A quiet test that does not ask for a response first.
QuietBreakAnyCount(count, e) == e > QuietTicks

\* if response_count > 0 and (time.time() - timeout_start) > 1.0: break
QuietBreak(count, e) == count > 0 /\ e > QuietTicks

\* A loop that leaves timeout_start alone when a line arrives.
ElapsedAfterLineNoReset(e) == e + FlashTicks

\* timeout_start = time.time() on a line with text; the 0.05 s flash of the
\* indicator follows before the loop tests the clock again.
ElapsedAfterLine(e) == FlashTicks

\* A clock that starts again from zero before it reaches the quiet period.
AfterPollWrapped(e) == (e + PollTicks) % QuietTicks

\* time.sleep(0.05) with nothing waiting: the clock read by the quiet test.
AfterPoll(e) == e + PollTicks

\* A readline failure that the inner try does not catch: it reaches the
\* handler of send_to_robot.
SReadlineRaisesUncaught ==
  /\ inbuf # <<>>
  /\ inbuf' = Tail(inbuf)
  /\ SExcept("readline")
  /\ UNCHANGED <<elapsed, response_count, devLines, sendResult>>

\* ser.readline() raises: except Exception as decode_error prints it, the
\* line is lost and the loop goes on.
SReadlineRaises ==
  /\ inbuf # <<>>
  /\ inbuf' = Tail(inbuf)
  /\ failAt' = "readline"
  /\ UNCHANGED <<pc, elapsed, response_count, devLines, led, sendResult,
                 cycles>>

\* One turn of the response loop, or its end and return True.
SPoll ==
  /\ pc = "s_loop"
  /\ \/ /\ ~CollectRunning(elapsed)
        /\ sendResult' = TRUE
        /\ pc' = "s_return"
        /\ UNCHANGED <<elapsed, response_count, inbuf, devLines, led, failAt,
                       cycles>>
     \/ \* ser.in_waiting raises: caught by the outer except Exception
        /\ CollectRunning(elapsed)
        /\ SExcept("poll")
        /\ UNCHANGED <<elapsed, response_count, inbuf, devLines, sendResult>>
     \/ \* a line with text: counted, timeout_start reset, indicator flashed
        /\ CollectRunning(elapsed)
        /\ inbuf # <<>>
        /\ Head(inbuf) = "line"
        /\ response_count' = Min(response_count + 1, MaxLines)
        /\ elapsed' = ElapsedAfterLine(elapsed)
        /\ \E l \in LedOutcomes(led, FALSE, FALSE) :
             led' \in LedOutcomes(l, TRUE, TRUE)
        /\ ArriveOn(Tail(inbuf))
        /\ UNCHANGED <<pc, sendResult, failAt, cycles>>
     \/ \* a line that strips to "": nothing is counted
        /\ CollectRunning(elapsed)
        /\ inbuf # <<>>
        /\ Head(inbuf) = "blank"
        /\ inbuf' = Tail(inbuf)
        /\ UNCHANGED <<pc, elapsed, response_count, devLines, led, sendResult,
                       failAt, cycles>>
     \/ \* readline raises on the waiting line
        /\ CollectRunning(elapsed)
        /\ SReadlineRaises
     \/ \* nothing waiting: time.sleep(0.05), then the quiet test
        /\ CollectRunning(elapsed)
        /\ inbuf = <<>>
        /\ Arrive
        /\ elapsed' = AfterPoll(elapsed)
        /\ IF QuietBreak(response_count, AfterPoll(elapsed))
           THEN sendResult' = TRUE /\ pc' = "s_return"
           ELSE UNCHANGED <<pc, sendResult>>
        /\ UNCHANGED <<response_count, led, failAt, cycles>>
  /\ UNCHANGED <<ser, SERIAL_PORT, startup_messages, envVars, intrLeft,
                 cmdsLeft, command_json, sendCaller, initCaller, serial_ok,
                 initFailAt, nClose, nReopen, written, initTrace,
                 finOpen, spoken,
                 attempt, monVars>>

\* A handler that goes on to the reopen although the close raised.
SCloseGoesOn ==
  /\ pc = "s_close"
  /\ nClose' = nClose + 1
  /\ \/ /\ ser' = "closed"
        /\ inbuf' = <<>>
        /\ attempt' = "closed"
        /\ pc' = "s_backoff"
        /\ UNCHANGED <<sendResult, cycles>>
     \/ \* close raises and is ignored
        /\ attempt' = "close_raised"
        /\ pc' = "s_backoff"
        /\ UNCHANGED <<ser, inbuf, sendResult, cycles>>
  /\ UNCHANGED <<SERIAL_PORT, led, elapsed, response_count, startup_messages,
                 devLines, envVars, intrLeft, cmdsLeft, command_json,
                 sendCaller, initCaller, serial_ok, failAt, initFailAt,
                 nReopen, written, initTrace, finOpen, spoken, monVars>>

\* try: if ser: ser.close() ... except: pass; return False
SClose ==
  /\ pc = "s_close"
  /\ nClose' = nClose + 1
  /\ \/ /\ ser' = "closed"
        /\ inbuf' = <<>>
        /\ attempt' = "closed"
        /\ pc' = "s_backoff"
        /\ UNCHANGED <<sendResult, cycles>>
     \/ \* close raises: the bare except ends the attempt
        /\ attempt' = "close_raised"
        /\ cycles' = CycleAborted(cycles)
        /\ sendResult' = HandlerResult
        /\ pc' = "s_return"
        /\ UNCHANGED <<ser, inbuf>>
  /\ UNCHANGED <<SERIAL_PORT, led, elapsed, response_count, startup_messages,
                 devLines, envVars, intrLeft, cmdsLeft, command_json,
                 sendCaller, initCaller, serial_ok, failAt, initFailAt,
                 nReopen, written, initTrace, finOpen, spoken, monVars>>

\* A supervisor that reopens once per process: later failures close the
\* handle and give up.
SBackoffLimited ==
  /\ pc = "s_backoff"
  /\ IF ~cycles.counted \/ cycles.reopened = 0
     THEN /\ nReopen' = nReopen + 1
          /\ cycles' = CycleReopened(cycles)
          /\ attempt' = "init_serial"
          /\ CallInit("reconnect")
          /\ UNCHANGED sendResult
     ELSE /\ attempt' = "returned"
          /\ sendResult' = HandlerResult
          /\ pc' = "s_return"
          /\ UNCHANGED <<nReopen, cycles, initCaller, initFailAt, initTrace>>
  /\ UNCHANGED <<ser, SERIAL_PORT, led, elapsed, response_count,
                 startup_messages, inbuf, devLines, envVars, intrLeft,
                 cmdsLeft, command_json, sendCaller, serial_ok,
                 failAt, nClose, written, finOpen, spoken, monVars>>

\* time.sleep(1); init_serial()
SBackoff ==
  /\ pc = "s_backoff"
  /\ nReopen' = nReopen + 1
  /\ cycles' = CycleReopened(cycles)
  /\ attempt' = "init_serial"
  /\ CallInit("reconnect")
  /\ UNCHANGED <<ser, SERIAL_PORT, led, elapsed, response_count,
                 startup_messages, inbuf, devLines, envVars, intrLeft,
                 cmdsLeft, command_json, sendCaller, sendResult, serial_ok,
                 failAt, nClose, written, finOpen, spoken, monVars>>

\* The locals of a finished send_to_robot call are gone.
DropSendLocals ==
  /\ elapsed' = 0
  /\ response_count' = 0
  /\ failAt' = "none"
  /\ nClose' = 0
  /\ nReopen' = 0
  /\ attempt' = "none"
  /\ command_json' = StopJson

\* if cmd_success: speak a confirmation; else: speak("Maaf, gagal mengirim
\* perintah ke robot. Periksa koneksi ESP32."), whatever made the call fail.
CommandSpeech(cmd_success) ==
  IF cmd_success THEN "confirmation" ELSE "failure"

\* send_to_robot returns to its call site in main.
SReturn ==
  /\ pc = "s_return"
  /\ \/ \* shutdown keyword: speak(...); break
        /\ sendCaller = "shutdown"
        /\ spoken' = "shutdown"
        /\ pc' = "finally"
     \/ \* a robot command: speak the outcome, next turn of the loop
        /\ sendCaller = "cmd"
        /\ spoken' = CommandSpeech(sendResult)
        /\ pc' = "main_loop"
     \/ \* the finally block: time.sleep(0.5) follows
        /\ sendCaller = "finally"
        /\ spoken' = spoken
        /\ pc' = "fin_sleep"
  /\ DropSendLocals
  /\ UNCHANGED <<ser, SERIAL_PORT, led, startup_messages, inbuf, devLines,
                 envVars, intrLeft, cmdsLeft, sendCaller, initCaller,
                 sendResult, serial_ok, initFailAt, written, initTrace,
                 finOpen, cycles, monVars>>

\* ------------------------------------------------------ main (main_raspy)
\* init_gpio and the start-up indicator sequence, then serial_ok = init_serial()
MainStart ==
  /\ program = "main_raspy"
  /\ pc = "main_start"
  /\ set_status_led(FALSE, FALSE)
  /\ written' = <<>>
  /\ CallInit("main")
  /\ UNCHANGED <<ser, SERIAL_PORT, elapsed, response_count, startup_messages,
                 inbuf, devLines, envVars, intrLeft, cmdsLeft,
                 command_json, sendCaller, sendResult, serial_ok, failAt,
                 nClose, nReopen, finOpen, spoken, cycles, attempt, monVars>>

\* while True: set_status_led(True, True), then listen
MainLoop ==
  /\ pc = "main_loop"
  /\ set_status_led(TRUE, TRUE)
  /\ spoken' = "none"
  /\ pc' = "main_listen"
  /\ UNCHANGED <<ser, SERIAL_PORT, elapsed, response_count, startup_messages,
                 inbuf, devLines, envVars, intrLeft, cmdsLeft,
                 command_json, sendCaller, initCaller, sendResult, serial_ok,
                 failAt, initFailAt, nClose, nReopen, written, initTrace,
                 finOpen, cycles, attempt, monVars>>

\* One utterance: listen_and_transcribe*, then the shutdown test, chat_with_ai
\* and extract_robot_command.
MainListen ==
  /\ pc = "main_listen"
  /\ \/ \* nothing recognised (the listen functions end ready or in error)
        /\ \E l \in {<<TRUE, TRUE>>, <<FALSE, FALSE>>} :
             set_status_led(l[1], l[2])
        /\ pc' = "main_loop"
        /\ UNCHANGED <<cmdsLeft, command_json, sendCaller, failAt, nClose,
                       nReopen, attempt, written, response_count, elapsed,
                       spoken>>
     \/ \* a shutdown keyword: send_to_robot(STOP)
        /\ set_status_led(TRUE, TRUE)
        /\ CallSend(StopJson, "shutdown")
        /\ UNCHANGED <<cmdsLeft, spoken>>
     \/ \* a reply without a brace-delimited span (chat_with_ai ends ready,
        \* or in error): speak(ai_reply)
        /\ \E l \in {<<TRUE, TRUE>>, <<FALSE, FALSE>>} :
             set_status_led(l[1], l[2])
        /\ spoken' = "reply"
        /\ pc' = "main_loop"
        /\ UNCHANGED <<cmdsLeft, command_json, sendCaller, failAt, nClose,
                       nReopen, attempt, written, response_count, elapsed>>
     \/ \* a reply holding a brace-delimited span: send_to_robot(robot_cmd)
        /\ cmdsLeft > 0
        /\ cmdsLeft' = cmdsLeft - 1
        /\ set_status_led(TRUE, TRUE)
        /\ \E j \in AiOutputs : CallSend(j, "cmd")
        /\ UNCHANGED spoken
     \/ \* an exception the inner try does not catch: except Exception as e,
        \* speak("Terjadi error sistem. ...")
        /\ spoken' = "error"
        /\ pc' = "finally"
        /\ UNCHANGED <<led, cmdsLeft, command_json, sendCaller, failAt,
                       nClose, nReopen, attempt, written, response_count,
                       elapsed>>
  /\ UNCHANGED <<ser, SERIAL_PORT, startup_messages, inbuf, devLines,
                 envVars, intrLeft, initCaller, sendResult, serial_ok,
                 initFailAt, initTrace, finOpen, cycles, monVars>>

\* finally: set_status_led(False, False); if ser and ser.is_open: send STOP
MainFinally ==
  /\ pc = "finally"
  /\ set_status_led(FALSE, FALSE)
  /\ finOpen' = (ser = "open")
  /\ spoken' = "none"    \* the turns of the loop are over
  /\ cycles' = cycles
  /\ IF ser = "open"
     THEN CallSend(StopJson, "finally")
     ELSE /\ pc' = "done"
          /\ UNCHANGED <<command_json, sendCaller, failAt, nClose, nReopen,
                         attempt, written, response_count, elapsed>>
  /\ UNCHANGED <<ser, SERIAL_PORT, startup_messages, inbuf, devLines,
                 envVars, intrLeft, cmdsLeft, initCaller, sendResult,
                 serial_ok, initFailAt, initTrace, monVars>>

\* time.sleep(0.5)
FinSleep ==
  /\ pc = "fin_sleep"
  /\ Arrive
  /\ pc' = "fin_close"
  /\ UNCHANGED <<ser, SERIAL_PORT, led, elapsed, response_count,
                 startup_messages, envVars, intrLeft, cmdsLeft,
                 command_json, sendCaller, initCaller, sendResult, serial_ok,
                 failAt, initFailAt, nClose, nReopen, written, initTrace,
                 finOpen, spoken, cycles, attempt, monVars>>

\* ser.close() inside try ... except: pass, then cleanup_gpio()
FinClose ==
  /\ pc = "fin_close"
  /\ \/ /\ ser' = "closed"
        /\ inbuf' = <<>>
     \/ \* close raises on the open handle: swallowed
        /\ ser = "open"
        /\ UNCHANGED <<ser, inbuf>>
  /\ pc' = "done"
  /\ UNCHANGED <<SERIAL_PORT, led, elapsed, response_count, startup_messages,
                 devLines, envVars, intrLeft, cmdsLeft, command_json,
                 sendCaller, initCaller, sendResult, serial_ok, failAt,
                 initFailAt, nClose, nReopen, written, initTrace,
                 finOpen, spoken, cycles,
                 attempt, monVars>>

\* Statements in which the voice controller sleeps or blocks.
SendSleeps == {"s_flash", "s_sleep", "s_loop"}
InitSleeps == {"i_settle", "i_probe_sleep", "i_loop"}

\* Where a KeyboardInterrupt raised at statement p is caught: send_to_robot
\* and init_serial catch Exception only; the reconnect attempt and main's
\* finally block use a bare except; main's loop body breaks.
InterruptTarget(p) ==
  IF p = "main_listen" THEN "finally"
  ELSE IF p \in SendSleeps
       THEN (IF sendCaller = "finally" THEN "done" ELSE "finally")
  ELSE IF p = "s_backoff" THEN "s_return"
  ELSE IF p \in InitSleeps
       THEN (IF initCaller = "reconnect" THEN "s_return" ELSE "crashed")
  ELSE "done"

\* The operator presses Ctrl-C while the program sleeps or blocks.
Interrupt ==
  /\ intrLeft > 0
  /\ pc \in {"main_listen", "s_backoff", "fin_sleep"} \cup SendSleeps
            \cup InitSleeps
  /\ intrLeft' = intrLeft - 1
  /\ pc' = InterruptTarget(pc)
  /\ DropInitLocals
  /\ cycles' = IF pc = "s_backoff" THEN CycleAborted(cycles) ELSE cycles
  /\ IF InterruptTarget(pc) = "s_return"
     THEN /\ sendResult' = HandlerResult
          /\ attempt' = "interrupted"
          /\ elapsed' = 0
          /\ UNCHANGED <<response_count, failAt, nClose, nReopen,
                         command_json>>
     ELSE /\ DropSendLocals
          /\ UNCHANGED sendResult
  /\ UNCHANGED <<ser, SERIAL_PORT, led, inbuf, devLines, envVars, cmdsLeft,
                 sendCaller, initCaller, serial_ok, written, finOpen, spoken,
                 monVars>>

\* ------------------------------------------- text of the operator monitor
UpperAlpha ==
  <<"A", "B", "C", "D", "E", "F", "G", "H", "I", "J", "K", "L", "M", "N",
    "O", "P", "Q", "R", "S", "T", "U", "V", "W", "X", "Y", "Z">>
LowerAlpha ==
  <<"a", "b", "c", "d", "e", "f", "g", "h", "i", "j", "k", "l", "m", "n",
    "o", "p", "q", "r", "s", "t", "u", "v", "w", "x", "y", "z">>

\* str.lower() of one character.
LowerChar(c) ==
  IF \E i \in 1..26 : UpperAlpha[i] = c
  THEN LowerAlpha[CHOOSE i \in 1..26 : UpperAlpha[i] = c]
  ELSE c

\* str.lower()
Lower(s) == [i \in 1..Len(s) |-> LowerChar(s[i])]

RECURSIVE LStrip(_)
LStrip(s) == IF s # <<>> /\ Head(s) = " " THEN LStrip(Tail(s)) ELSE s

RECURSIVE RStrip(_)
RStrip(s) ==
  IF s # <<>> /\ s[Len(s)] = " " THEN RStrip(SubSeq(s, 1, Len(s) - 1)) ELSE s

\* str.strip()
Strip(s) == RStrip(LStrip(s))

\* str.startswith(p)
StartsWith(s, p) == Len(s) >= Len(p) /\ SubSeq(s, 1, Len(p)) = p

RECURSIVE FirstToken(_)
\* the characters of s before its first blank
FirstToken(s) ==
  IF s = <<>> \/ Head(s) = " " THEN <<>>
  ELSE <<Head(s)>> \o FirstToken(Tail(s))

\* s.split()[1] of a stripped s that holds a blank: its second token.
SecondToken(s) ==
  FirstToken(LStrip(SubSeq(s, Len(FirstToken(s)) + 1, Len(s))))

IsDigit(c) == \E i \in 1..10 : Digit[i] = c
DigitVal(c) == (CHOOSE i \in 1..10 : Digit[i] = c) - 1

RECURSIVE NatVal(_)
\* int() of a sequence of digits
NatVal(ds) ==
  IF ds = <<>> THEN 0
  ELSE NatVal(SubSeq(ds, 1, Len(ds) - 1)) * 10 + DigitVal(ds[Len(ds)])

AllDigits(ds) == \A i \in 1..Len(ds) : IsDigit(ds[i])

\* float(tok) for decimal text with at most one digit after the point:
\* the value in tenths, or ok = FALSE where float() raises ValueError.
ParseFloat(tok) ==
  LET neg == tok # <<>> /\ Head(tok) = "-"
      body == IF tok # <<>> /\ Head(tok) \in {"-", "+"} THEN Tail(tok)
              ELSE tok
      dots == {i \in 1..Len(body) : body[i] = "."}
      dot == IF dots = {} THEN Len(body) + 1 ELSE CHOOSE i \in dots : TRUE
      whole == SubSeq(body, 1, dot - 1)
      frac == SubSeq(body, dot + 1, Len(body))
      ok == /\ Cardinality(dots) <= 1
            /\ AllDigits(whole) /\ AllDigits(frac)
            /\ Len(whole) + Len(frac) > 0
            /\ Len(frac) <= 1
      mag == NatVal(whole) * 10 + NatVal(frac)
  IN  [ok |-> ok, n |-> IF ~ok THEN 0 ELSE IF neg THEN 0 - mag ELSE mag]

K_quit == <<"q", "u", "i", "t">>
K_exit == <<"e", "x", "i", "t">>
K_q == <<"q">>
K_help == <<"h", "e", "l", "p">>
K_clear == <<"c", "l", "e", "a", "r">>
K_status == <<"s", "t", "a", "t", "u", "s">>
K_stop == <<"s", "t", "o", "p">>
K_forward == <<"f", "o", "r", "w", "a", "r", "d", " ">>
K_backward == <<"b", "a", "c", "k", "w", "a", "r", "d", " ">>
K_left == <<"l", "e", "f", "t", " ">>
K_right == <<"r", "i", "g", "h", "t", " ">>
K_speed == <<"s", "p", "e", "e", "d", " ">>
K_raw == <<"r", "a", "w", " ">>

\* What one turn of interactive_mode's loop does with the typed line.
NoSend(kind) ==
  [kind |-> kind, command |-> <<>>, value |-> IntV(0), unit |-> <<>>,
   raw_data |-> <<>>]
Command(c, v, u) ==
  [kind |-> "command", command |-> c, value |-> v, unit |-> u,
   raw_data |-> <<>>]
RawLine(d) ==
  [kind |-> "raw", command |-> <<>>, value |-> IntV(0), unit |-> <<>>,
   raw_data |-> d]

\* A verb that sends 0 when its argument is no number.
MotionDefaultZero(u, c, unit) ==
  LET f == ParseFloat(SecondToken(u))
  IN  Command(c, FloatV(IF f.ok THEN f.n ELSE 0), unit)

\* float(user_input.split()[1]), then send_command, or the usage message.
Motion(u, c, unit) ==
  LET f == ParseFloat(SecondToken(u))
  IN  IF f.ok THEN Command(c, FloatV(f.n), unit) ELSE NoSend("usage")

\* A speed verb without the range test.
SpeedCommandAnyValue(u) == Motion(u, S_SPEED, S_percent)

\* speed: the same, with the 0 <= speed <= 100 test.
SpeedCommand(u) ==
  LET f == ParseFloat(SecondToken(u))
  IN  IF ~f.ok THEN NoSend("usage")
      ELSE IF 0 <= f.n /\ f.n <= SpeedMax * 10
           THEN Command(S_SPEED, FloatV(f.n), S_percent)
      ELSE NoSend("range")

\* user_input = input("ESP32> ").strip().lower() and the if/elif chain.
Dispatch(typed) ==
  LET u == Lower(Strip(typed))
  IN  IF u = <<>> THEN NoSend("empty")
      ELSE IF u \in {K_quit, K_exit, K_q} THEN NoSend("quit")
      ELSE IF u = K_help THEN NoSend("help")
      ELSE IF u = K_clear THEN NoSend("clear")
      ELSE IF u = K_status THEN Command(S_STATUS, IntV(0), S_none)
      ELSE IF u = K_stop THEN Command(S_STOP, IntV(0), S_none)
      ELSE IF StartsWith(u, K_forward) THEN Motion(u, S_FORWARD, S_meter)
      ELSE IF StartsWith(u, K_backward) THEN Motion(u, S_BACKWARD, S_meter)
      ELSE IF StartsWith(u, K_left) THEN Motion(u, S_LEFT, S_degree)
      ELSE IF StartsWith(u, K_right) THEN Motion(u, S_RIGHT, S_degree)
      ELSE IF StartsWith(u, K_speed) THEN SpeedCommand(u)
      ELSE IF StartsWith(u, K_raw) THEN RawLine(SubSeq(u, 5, Len(u)))
      ELSE NoSend("unknown")

\* send_raw: if not raw_data.endswith('\n'): raw_data += '\n'
RawBytes(raw_data) ==
  IF raw_data # <<>> /\ raw_data[Len(raw_data)] = "\n" THEN raw_data
  ELSE raw_data \o <<"\n">>

\* The bytes send_command / send_raw hand to ser.write for a dispatched line.
WireBytes(d) ==
  IF d.kind = "command" THEN EncodeLine(d.command, d.value, d.unit)
  ELSE RawBytes(d.raw_data)

\* Lines the operator may type.
InputLines ==
  {
    <<"f", "o", "r", "w", "a", "r", "d", " ", "5">>,
    <<"l", "e", "f", "t", " ", "9", "0">>,
    <<"s", "p", "e", "e", "d", " ", "7", "5">>,
    <<"r", "a", "w", " ", "S", "T", "A", "T", "U", "S", ",", "0", ",", "n", "o", "n", "e">>,
    <<"r", "a", "w", " ", "s", "t", "o", "p", ",", "0", ",", "n", "o", "n", "e">>,
    <<"s", "t", "o", "p">>,
    <<"s", "t", "a", "t", "u", "s">>,
    <<"q", "u", "i", "t">>,
    <<"h", "e", "l", "p">>,
    <<"b", "a", "c", "k", "w", "a", "r", "d", " ", "2", ".", "5">>,
    <<"r", "i", "g", "h", "t", " ", "4", "5">>,
    <<"s", "p", "e", "e", "d", " ", "1", "5", "0">>,
    <<"b", "o", "g", "u", "s">>,
    <<"f", "o", "r", "w", "a", "r", "d", " ", "x">>,
    <<"F", "O", "R", "W", "A", "R", "D", " ", "5">>,
    <<" ", "s", "t", "o", "p", " ">>,
    <<"s", "p", "e", "e", "d", " ", "-", "5">>,
    <<"f", "o", "r", "w", "a", "r", "d">>,
    <<"l", "e", "f", "t", " ">>,
    <<>>
  }

\* ------------------------------------- ESP32SerialMonitor (serial_monitor)
\* main: monitor.connect(port) -- the port given or found, serial.Serial(),
\* time.sleep(2) -- and, when it returns True, interactive_mode().
MConnect ==
  /\ program = "serial_monitor"
  /\ m_pc = "m_start"
  /\ \/ \* no port found, or serial.Serial raises: connect returns False
        /\ m_pc' = "d2_stop"
        /\ UNCHANGED <<m_ser, m_opens>>
     \/ \* the handle opens and connect returns True
        /\ m_ser' = "open"
        /\ m_opens' = m_opens + 1
        /\ m_pc' = "m_start_monitoring"
     \/ \* Ctrl-C during time.sleep(2): main's except KeyboardInterrupt
        /\ m_ser' = "open"
        /\ m_opens' = m_opens + 1
        /\ m_pc' = "d2_stop"
  /\ UNCHANGED <<running, monitor_thread, t_pc, m_last, user_input, m_sent,
                 m_result, m_devLines, m_logged, inputsLeft, m_readers,
                 voiceVars>>

\* start_monitoring: running = True and the reader thread started (the handle
\* is open here, connect having returned True), then show_help.
StartMonitoring ==
  /\ m_pc = "m_start_monitoring"
  /\ m_ser = "open"
  /\ running' = TRUE
  /\ monitor_thread' = "alive"
  /\ t_pc' = "test"
  /\ m_pc' = "m_prompt"
  /\ UNCHANGED <<m_ser, m_last, user_input, m_sent, m_result, m_devLines,
                 m_logged, inputsLeft, m_opens, m_readers, voiceVars>>

\* A send_command / send_raw that waits for a reply line after its write.
SendReadersMain == {"main"}

\* The tasks that read in send_command / send_raw: their bodies hold write
\* and flush and no read call.
SendReaders == {}

\* A send_command / send_raw without the test of the handle.
MSendUnguarded(b) ==
  \/ /\ m_sent' = b
     /\ m_last' = b
     /\ m_result' = TRUE
  \/ /\ m_sent' = <<>>
     /\ m_result' = FALSE
     /\ UNCHANGED m_last

\* send_command / send_raw on bytes b: False without a write when the handle
\* is not open; else write and flush, True, or False when either raises.
MSend(b) ==
  \/ /\ m_ser # "open"
     /\ m_sent' = <<>>
     /\ m_result' = FALSE
     /\ UNCHANGED m_last
  \/ /\ m_ser = "open"
     /\ m_sent' = b
     /\ m_last' = b
     /\ m_result' = TRUE
  \/ \* ser.write raises: nothing is reported sent
     /\ m_ser = "open"
     /\ m_sent' = <<>>
     /\ m_result' = FALSE
     /\ UNCHANGED m_last
  \/ \* ser.flush raises after the write
     /\ m_ser = "open"
     /\ m_sent' = b
     /\ m_last' = b
     /\ m_result' = FALSE

\* One turn of interactive_mode's loop: a typed line and what it leads to.
MInput ==
  /\ m_pc = "m_prompt"
  /\ running
  /\ inputsLeft > 0
  /\ inputsLeft' = inputsLeft - 1
  /\ \E typed \in InputLines :
       LET d == Dispatch(typed)
       IN  /\ user_input' = typed
           /\ IF d.kind \in {"command", "raw"}
              THEN /\ MSend(WireBytes(d))
                   /\ m_readers' = m_readers \cup SendReaders
              ELSE /\ m_sent' = <<>>
                   /\ UNCHANGED <<m_last, m_result, m_readers>>
           /\ m_pc' = IF d.kind = "quit" THEN "d1_stop" ELSE "m_prompt"
  /\ UNCHANGED <<m_ser, running, monitor_thread, t_pc, m_devLines, m_logged,
                 m_opens, voiceVars>>

\* input() raises KeyboardInterrupt or EOFError, or the loop body raises:
\* the loop is left for the finally block.
MBreak ==
  /\ m_pc = "m_prompt"
  /\ m_pc' = "d1_stop"
  /\ UNCHANGED <<m_ser, running, monitor_thread, t_pc, m_last, user_input,
                 m_sent, m_result, m_devLines, m_logged, inputsLeft,
                 m_opens, m_readers, voiceVars>>

\* send_command or send_raw called on an ESP32SerialMonitor object as it
\* stands: never connected, connected, or disconnected.
ApiSend ==
  /\ m_pc = "api"
  /\ inputsLeft > 0
  /\ inputsLeft' = inputsLeft - 1
  /\ \E typed \in InputLines :
       LET d == Dispatch(typed)
       IN  /\ d.kind \in {"command", "raw"}
           /\ user_input' = typed
           /\ MSend(WireBytes(d))
           /\ m_readers' = m_readers \cup SendReaders
  /\ UNCHANGED <<m_pc, m_ser, running, monitor_thread, t_pc, m_devLines,
                 m_logged, m_opens, voiceVars>>

\* The two calls of disconnect(): 1 from interactive_mode's finally, 2 from
\* main's finally.
DPc(k, step) == IF k = 1 THEN "d1_" \o step ELSE "d2_" \o step

\* A disconnect that leaves the running flag alone.
DStopKeepsRunning(k) ==
  /\ m_pc = DPc(k, "stop")
  /\ running' = running
  /\ m_pc' = DPc(k, "join")
  /\ UNCHANGED <<m_ser, monitor_thread, t_pc, m_last, user_input, m_sent,
                 m_result, m_devLines, m_logged, inputsLeft, m_opens,
                 m_readers, voiceVars>>

\* disconnect: self.running = False
DStop(k) ==
  /\ m_pc = DPc(k, "stop")
  /\ running' = FALSE
  /\ m_pc' = DPc(k, "join")
  /\ UNCHANGED <<m_ser, monitor_thread, t_pc, m_last, user_input, m_sent,
                 m_result, m_devLines, m_logged, inputsLeft, m_opens,
                 m_readers, voiceVars>>

\* disconnect: monitor_thread.join(timeout=2) when the thread is alive. The
\* join returns with the thread ended, or after 2 s with the thread still
\* inside a readline that bytes without a newline keep going.
DJoin(k) ==
  /\ m_pc = DPc(k, "join")
  /\ monitor_thread # "alive" \/ t_pc = "poll"
  /\ m_pc' = DPc(k, "close")
  /\ UNCHANGED <<m_ser, running, monitor_thread, t_pc, m_last, user_input,
                 m_sent, m_result, m_devLines, m_logged, inputsLeft,
                 m_opens, m_readers, voiceVars>>

\* A disconnect that calls self.ser.close() without testing the handle:
\* with no handle the call raises.
DCloseUnguarded(k) ==
  /\ m_pc = DPc(k, "close")
  /\ \/ /\ m_ser = "closed"
        /\ m_pc' = IF k = 1 THEN "d2_stop" ELSE "m_done"
        /\ UNCHANGED m_ser
     \/ /\ m_ser = "open"
        /\ m_ser' = "closed"
        /\ m_pc' = IF k = 1 THEN "d2_stop" ELSE "m_done"
     \/ /\ m_ser # "closed"
        /\ m_pc' = IF k = 1 THEN "m_except" ELSE "m_crashed"
        /\ UNCHANGED m_ser
  /\ UNCHANGED <<running, monitor_thread, t_pc, m_last, user_input, m_sent,
                 m_result, m_devLines, m_logged, inputsLeft, m_opens,
                 m_readers, voiceVars>>

\* disconnect: if self.ser and self.ser.is_open: self.ser.close()
DClose(k) ==
  /\ m_pc = DPc(k, "close")
  /\ \/ /\ m_ser # "open"
        /\ m_pc' = IF k = 1 THEN "d2_stop" ELSE "m_done"
        /\ UNCHANGED m_ser
     \/ /\ m_ser = "open"
        /\ m_ser' = "closed"
        /\ m_pc' = IF k = 1 THEN "d2_stop" ELSE "m_done"
     \/ \* close raises: out of interactive_mode into main's except Exception
        \* and finally, or out of main
        /\ m_ser = "open"
        /\ m_pc' = IF k = 1 THEN "m_except" ELSE "m_crashed"
        /\ UNCHANGED m_ser
  /\ UNCHANGED <<running, monitor_thread, t_pc, m_last, user_input, m_sent,
                 m_result, m_devLines, m_logged, inputsLeft, m_opens,
                 m_readers, voiceVars>>

\* main: except Exception as e: print(...), then the finally block.
MainExcept ==
  /\ m_pc = "m_except"
  /\ m_pc' = "d2_stop"
  /\ UNCHANGED <<m_ser, running, monitor_thread, t_pc, m_last, user_input,
                 m_sent, m_result, m_devLines, m_logged, inputsLeft,
                 m_opens, m_readers, voiceVars>>

\* A reader whose loop tests the handle only.
TTestIgnoresStop ==
  /\ t_pc = "test"
  /\ IF m_ser = "open"
     THEN t_pc' = "poll" /\ UNCHANGED monitor_thread
     ELSE t_pc' = "dead" /\ monitor_thread' = "dead"
  /\ UNCHANGED <<m_pc, m_ser, running, m_last, user_input, m_sent, m_result,
                 m_devLines, m_logged, inputsLeft, m_opens, m_readers,
                 voiceVars>>

\* monitor_serial: while self.running and self.ser and self.ser.is_open
TTest ==
  /\ t_pc = "test"
  /\ IF running /\ m_ser = "open"
     THEN t_pc' = "poll" /\ UNCHANGED monitor_thread
     ELSE t_pc' = "dead" /\ monitor_thread' = "dead"
  /\ UNCHANGED <<m_pc, m_ser, running, m_last, user_input, m_sent, m_result,
                 m_devLines, m_logged, inputsLeft, m_opens, m_readers,
                 voiceVars>>

\* monitor_serial: in_waiting, readline, print, time.sleep(0.01)
TPoll ==
  /\ t_pc = "poll"
  /\ \/ \* nothing waiting
        /\ m_ser = "open"
        /\ t_pc' = "test"
        /\ UNCHANGED <<monitor_thread, m_devLines, m_logged, m_readers>>
     \/ \* a line with text is read and printed
        /\ m_ser = "open"
        /\ m_devLines > 0
        /\ m_devLines' = m_devLines - 1
        /\ m_logged' = m_logged + 1
        /\ m_readers' = m_readers \cup {"thread"}
        /\ t_pc' = "test"
        /\ UNCHANGED monitor_thread
     \/ \* in_waiting or readline raises: except Exception ... break
        /\ t_pc' = "dead"
        /\ monitor_thread' = "dead"
        /\ UNCHANGED <<m_devLines, m_logged, m_readers>>
  /\ UNCHANGED <<m_pc, m_ser, running, m_last, user_input, m_sent, m_result,
                 inputsLeft, m_opens, voiceVars>>

\* ------------------------------------------------- the encoding on its own
\* The seven command names and the five units of the wire format.
CommandNames ==
  {S_FORWARD, S_BACKWARD, S_LEFT, S_RIGHT, S_STOP, S_SPEED, S_STATUS}

Units == {S_meter, S_degree, S_percent, S_none, S_continuous}

\* Numbers a descriptor may carry: Python ints and floats.
SampleValues ==
  {IntV(-1), IntV(0), IntV(5), IntV(90), IntV(100), FloatV(25), FloatV(-10),
   FloatV(900)}

Descriptors == [command : CommandNames, value : SampleValues, unit : Units]

\* send_to_robot builds the line of a JSON object that holds the keys c_keys.
EncodeRobot ==
  /\ c_pc = "idle"
  /\ c_line' = serial_cmd(JsonObj(c_keys, c_cmd.command, c_cmd.value,
                                  c_cmd.unit))
  /\ c_pc' = "send_to_robot"
  /\ UNCHANGED <<program, devEndless, gpio, osVars, c_cmd, c_keys,
                 voiceState, monVars>>

\* send_command builds the line of its three arguments.
EncodeMonitor ==
  /\ c_pc = "idle"
  /\ c_line' = WireBytes(Command(c_cmd.command, c_cmd.value, c_cmd.unit))
  /\ c_pc' = "send_command"
  /\ UNCHANGED <<program, devEndless, gpio, osVars, c_cmd, c_keys,
                 voiceState, monVars>>

\* ------------------------------------------------------------------ Init
\* The two scripts of the repository; a process runs one of them.
Programs == {"main_raspy", "serial_monitor"}

VoiceInit ==
  /\ pc = "main_start"
  /\ ser = "None"
  /\ SERIAL_PORT = "None"
  /\ led = <<FALSE, FALSE>>
  /\ elapsed = 0
  /\ response_count = 0
  /\ startup_messages = 0
  /\ inbuf = <<>>
  /\ devLines = MaxLines
  /\ intrLeft = MaxInterrupts
  /\ cmdsLeft = MaxCmds
  /\ command_json = StopJson
  /\ sendCaller = "none"
  /\ initCaller = "none"
  /\ sendResult = FALSE
  /\ serial_ok = FALSE
  /\ failAt = "none"
  /\ initFailAt = "none"
  /\ nClose = 0
  /\ nReopen = 0
  /\ attempt = "none"
  /\ written = <<>>
  /\ initTrace = <<>>
  /\ finOpen = FALSE
  /\ spoken = "none"

MonInit ==
  /\ m_pc = "m_start"
  /\ m_ser = "None"
  /\ m_opens = 0
  /\ m_readers = {}
  /\ running = FALSE
  /\ monitor_thread = "None"
  /\ t_pc = "none"
  /\ m_last = <<>>
  /\ user_input = <<>>
  /\ m_sent = <<>>
  /\ m_result = FALSE
  /\ m_devLines = MaxLines
  /\ m_logged = 0
  /\ inputsLeft = MaxInputs

\* The remote device of the voice controller is one that falls silent after
\* finitely many lines or one that never stops emitting.
\* The machine of the two scripts: GPIO_UART_ENABLE = False as the source
\* has it, no discovery call on its own.
\* No encoding is run on its own.
CodecIdle ==
  /\ c_pc = "idle"
  /\ c_cmd = [command |-> S_STOP, value |-> IntV(0), unit |-> S_none]
  /\ c_keys = AllKeys
  /\ c_line = <<>>

OsInit ==
  /\ GPIO_UART_ENABLE = FALSE
  /\ s0_exists = FALSE
  /\ enable_uart = FALSE
  /\ ports = <<>>
  /\ d_pc = "idle"
  /\ found = "None"

Init ==
  /\ program \in Programs
  /\ devEndless \in (IF program = "main_raspy" THEN BOOLEAN ELSE {FALSE})
  /\ gpio = "works"
  /\ cycles = NotCounted
  /\ VoiceInit
  /\ MonInit
  /\ OsInit
  /\ CodecIdle

\* One statement of main_raspy.py.
VoiceSteps ==
  \/ MainStart \/ MainLoop \/ MainListen \/ MainFinally \/ FinSleep
  \/ FinClose
  \/ IEntry \/ IOpen \/ ISettle \/ IResetIn \/ IResetOut \/ IProbe
  \/ IProbeSleep \/ IPoll \/ IReturn
  \/ SEntry \/ SFlash \/ SWrite \/ SFlush \/ SSleep \/ SPoll \/ SClose
  \/ SBackoff \/ SReturn

\* One step of serial_monitor.py: its main thread or its reader thread.
MonNext ==
  \/ MConnect \/ StartMonitoring \/ MInput \/ MBreak
  \/ DStop(1) \/ DJoin(1) \/ DClose(1)
  \/ DStop(2) \/ DJoin(2) \/ DClose(2)
  \/ MainExcept
  \/ TTest \/ TPoll

Next == VoiceSteps \/ Interrupt \/ MonNext

Spec == Init /\ [][Next]_vars

\* Port discovery on its own: a machine with any flag setting, any boot
\* configuration and any enumeration; an enumerated /dev/ttyS0 exists.
PortInit ==
  /\ program = "main_raspy"
  /\ devEndless = FALSE
  /\ gpio = "works"
  /\ cycles = NotCounted
  /\ VoiceInit
  /\ MonInit
  /\ GPIO_UART_ENABLE \in BOOLEAN
  /\ s0_exists \in BOOLEAN
  /\ enable_uart \in BOOLEAN
  /\ ports \in Enumerations
  /\ (\E i \in 1..Len(ports) : ports[i].device = GPIO_UART_PORT) => s0_exists
  /\ d_pc = "idle"
  /\ found = "None"
  /\ CodecIdle

PortNext == FindPortRpi \/ FindPortMonitor

PortSpec == PortInit /\ [][PortNext]_vars

\* The voice controller alone, no operator at the keyboard, the interpreter
\* always going on to the next statement of the program.
\* The voice controller on a machine whose indicator pins may fail to be
\* driven at any call, with a remote device that falls silent.
LedInit ==
  /\ program = "main_raspy"
  /\ devEndless = FALSE
  /\ gpio = "flaky"
  /\ cycles = NotCounted
  /\ VoiceInit
  /\ MonInit
  /\ OsInit
  /\ CodecIdle

LedSpec == LedInit /\ [][VoiceSteps]_vars

\* The encoding on its own: any descriptor of the wire format, through
\* either of the two functions that build a line; the JSON object of
\* send_to_robot holds any of the three keys.
CodecInit ==
  /\ program = "main_raspy"
  /\ devEndless = FALSE
  /\ gpio = "works"
  /\ cycles = NotCounted
  /\ VoiceInit
  /\ MonInit
  /\ OsInit
  /\ c_pc = "idle"
  /\ c_cmd \in Descriptors
  /\ c_keys \in SUBSET AllKeys
  /\ c_line = <<>>

CodecNext == EncodeRobot \/ EncodeMonitor

CodecSpec == CodecInit /\ [][CodecNext]_vars

\* The send functions on their own: the voice controller from its start,
\* and the methods of an ESP32SerialMonitor object whose handle is None
\* (never connected), open, or closed (disconnected).
SendInit ==
  \/ /\ Init
     /\ program = "main_raspy"
     /\ devEndless = FALSE
  \/ /\ program = "serial_monitor"
     /\ devEndless = FALSE
     /\ gpio = "works"
     /\ cycles = NotCounted
     /\ VoiceInit
     /\ OsInit
     /\ CodecIdle
     /\ m_pc = "api"
     /\ m_ser \in {"None", "open", "closed"}
     /\ m_opens = IF m_ser = "None" THEN 0 ELSE 1
     /\ m_readers = {}
     /\ running = FALSE
     /\ monitor_thread = "None"
     /\ t_pc = "none"
     /\ m_last = <<>>
     /\ user_input = <<>>
     /\ m_sent = <<>>
     /\ m_result = FALSE
     /\ m_devLines = MaxLines
     /\ m_logged = 0
     /\ inputsLeft = MaxInputs

SendNext == VoiceSteps \/ Interrupt \/ ApiSend

SendSpec == SendInit /\ [][SendNext]_vars

\* The voice controller with its reconnect cycles counted over the whole
\* run, with a remote device that falls silent.
CycleInit ==
  /\ program = "main_raspy"
  /\ devEndless = FALSE
  /\ gpio = "works"
  /\ cycles = NoCycles
  /\ VoiceInit
  /\ MonInit
  /\ OsInit
  /\ CodecIdle

CycleNext == VoiceSteps \/ Interrupt

CycleSpec == CycleInit /\ [][CycleNext]_vars

\* The operator monitor with its reader thread scheduled: a turn of the
\* reader's loop is bounded by the 1 s read timeout.
MonFairInit == Init /\ program = "serial_monitor"
MonFairSpec ==
  MonFairInit /\ [][MonNext]_vars /\ WF_vars(TTest \/ TPoll)

FairInit == Init /\ program = "main_raspy"
FairSpec == FairInit /\ [][VoiceSteps]_vars /\ WF_vars(VoiceSteps)

\* ---------------------------------------------------------- properties
\* send_to_robot has returned from the handler of a write or flush failure.
AfterWriteFailure == pc = "s_return" /\ failAt \in {"write", "flush"}

\* The lines written by a send_to_robot call whose write or flush failed:
\* the command line once at most, and nothing after it but one STATUS probe.
NoResend ==
  /\ failAt = "write" =>
       (written = <<>> \/ written = <<ProbeLine>>)
  /\ failAt = "flush" =>
       (written = <<serial_cmd(command_json)>>
          \/ written = <<serial_cmd(command_json), ProbeLine>>)

\* C1 (as stated): after a write or flush failure in send_to_robot the handler
\* has closed the handle exactly once and called init_serial exactly once, the
\* call returns False, and only the STATUS probe was written after the
\* failed command line.
C1_ExactlyOneReopen ==
  AfterWriteFailure =>
    (nClose = 1 /\ nReopen = 1 /\ sendResult = FALSE /\ NoResend)

\* C1 (amended): after a write or flush failure in send_to_robot the handler
\* has tried to close the handle exactly once and has called init_serial at
\* most once -- once when the close succeeded and init_serial returned, not at
\* all when the close raised, at most once when an operator interrupt cut the
\* backoff or the reopen short -- the call returns False, and only the STATUS
\* probe was written after the failed command line.
C1_OneCloseAtMostOneReopen ==
  AfterWriteFailure =>
    /\ nClose = 1
    /\ sendResult = FALSE
    /\ attempt \in {"returned", "close_raised", "interrupted"}
    /\ attempt = "returned" => nReopen = 1
    /\ attempt = "close_raised" => (nReopen = 0 /\ ser = "open")
    /\ attempt = "interrupted" => nReopen \in {0, 1}
    /\ NoResend

\* C1 witness: a flush failed, the handle was closed and init_serial reopened
\* it and wrote its probe.
C1_Witness ==
  /\ AfterWriteFailure
  /\ failAt = "flush"
  /\ attempt = "returned"
  /\ nReopen = 1
  /\ ser = "open"
  /\ written = <<serial_cmd(command_json), ProbeLine>>

\* The operator monitor is back at its prompt after a send_command or send_raw
\* on the open handle that returned False: its write or its flush raised.
MonSendFailed ==
  /\ m_pc = "m_prompt"
  /\ Dispatch(user_input).kind \in {"command", "raw"}
  /\ m_ser = "open"
  /\ m_result = FALSE

\* C2 (as stated): a write or flush failure starts the reconnect cycle in
\* send_to_robot and in the monitor's send_command / send_raw alike: the
\* handle that failed has been closed, and is either still closed or replaced
\* by a newly opened one.
C2_ReconnectInBothPrograms ==
  /\ AfterWriteFailure => nClose = 1
  /\ MonSendFailed => m_opens > 1

\* C3 (as stated): the operator monitor does not close its connection before
\* it has written STOP,0,none as its last line.
C3_StopBeforeClose == m_ser = "closed" => m_last = StopLine

\* C4 (as stated): when main() of the voice controller returns, no serial
\* handle is open, and if the connection was open when the shutdown sequence
\* began, the sequence has called for the STOP line.
C4_NoHandleOpenAtReturn ==
  pc = "done" =>
    /\ ser # "open"
    /\ finOpen => sendCaller = "finally"

\* send_to_robot returns from its response loop, the write and flush done.
AfterCollect ==
  pc = "s_return" /\ failAt \in {"none", "readline"} /\ written # <<>>

\* C5: when the write succeeded and no line with text came in, the response
\* loop ends exactly when the 3 s window has elapsed, with zero responses;
\* send_to_robot returns True and has closed and reopened nothing.
C5_SilenceIsNotAnError ==
  (AfterCollect /\ response_count = 0) =>
    /\ elapsed = WindowTicks
    /\ sendResult = TRUE
    /\ nClose = 0
    /\ nReopen = 0
    /\ ser = "open"

\* C5 witness: a command was written, the device sent nothing at all, and
\* send_to_robot returns True at the end of the window.
C5_Witness ==
  /\ AfterCollect
  /\ response_count = 0
  /\ devLines = MaxLines
  /\ ~devEndless
  /\ elapsed = WindowTicks
  /\ sendResult = TRUE

\* C6: once a line with text has been received, the response loop ends at
\* the first poll after the clock, restarted by every such line, has passed
\* the 1 s quiet period -- before the 3 s window is over, and never while
\* lines keep the clock at or below the quiet period; the responses counted
\* are no more than the lines the device sent.
C6_QuietPeriodEndsCollection ==
  (AfterCollect /\ response_count > 0) =>
    /\ elapsed > QuietTicks
    /\ elapsed <= QuietTicks + PollTicks
    /\ elapsed < WindowTicks
    /\ sendResult = TRUE
    /\ ~devEndless => response_count <= MaxLines - devLines

\* C6 witness: the device sent exactly one line and fell silent; the loop
\* ended one quiet period later with that one response.
C6_Witness ==
  /\ AfterCollect
  /\ response_count = 1
  /\ ~devEndless
  /\ devLines = MaxLines - 1
  /\ elapsed = QuietTicks + PollTicks
  /\ sendResult = TRUE

\* C7 (as stated): whatever the device sends, the response loop of
\* send_to_robot is eventually left.
C7_CollectionAlwaysEnds == (pc = "s_loop") ~> (pc # "s_loop")

\* C7 (amended): when the device sends finitely many lines, the response
\* loop of send_to_robot is eventually left.
C7_CollectionEndsOnceQuiet ==
  (pc = "s_loop" /\ ~devEndless) ~> (pc # "s_loop")

\* C7 witness: the device sent all the lines it had, every one was counted,
\* and send_to_robot returned.
C7_Witness ==
  /\ AfterCollect
  /\ ~devEndless
  /\ devLines = 0
  /\ response_count = MaxLines
  /\ sendResult = TRUE

\* The order of init_serial's steps.
InitOrder ==
  <<"open", "settle", "reset_input_buffer", "reset_output_buffer", "probe",
    "collect">>

\* C8 (as stated): init_serial returns True whenever the open and the write
\* of the STATUS probe succeeded.
C8_TrueWheneverProbeWritten ==
  (/\ pc = "i_return"
   /\ initTrace # <<>>
   /\ initTrace[Len(initTrace)] \in {"probe", "collect"})
    => serial_ok = TRUE

\* C8 (amended): init_serial returns True exactly when no step raised -- the
\* open, the two buffer resets, the write of the STATUS probe and every
\* in_waiting poll of the handshake -- whether or not startup lines came in;
\* it returns True only after the handshake window has elapsed, with the
\* handle open, and the steps it has taken are, in order: open, settle,
\* discard input, discard output, write probe, collect.
C8_TrueAfterHandshake ==
  pc = "i_return" =>
    /\ serial_ok = (initFailAt = "none")
    /\ initTrace = SubSeq(InitOrder, 1, Len(initTrace))
    /\ serial_ok =>
         /\ initTrace = InitOrder
         /\ elapsed >= WindowTicks
         /\ ser = "open"
    /\ (Len(initTrace) >= 5 /\ initFailAt # "poll") => serial_ok

\* C8 witness: init_serial returns True after a handshake in which startup
\* lines came in.
C8_Witness ==
  /\ pc = "i_return"
  /\ serial_ok = TRUE
  /\ startup_messages > 0
  /\ initTrace = InitOrder
  /\ elapsed >= WindowTicks

\* What the operator typed after the verb: user_input[4:] before .lower().
TypedPayload == SubSeq(Strip(user_input), 5, Len(Strip(user_input)))

\* C9 (as stated): for a typed line raw <payload>, the bytes written are the
\* payload as typed, followed by one newline.
C9_RawPayloadAsTyped ==
  (m_sent # <<>> /\ Dispatch(user_input).kind = "raw") =>
    m_sent = TypedPayload \o <<"\n">>

\* The number the operator typed after the verb.
TypedNumber == SecondToken(Lower(Strip(user_input)))

\* C10 (as stated): for a typed verb with a number, the line written is
\* <NAME>,<value>,<unit> and a newline, the value's text as it was typed:
\* forward 5 writes FORWARD,5,meter.
C10_ValueTextUnchanged ==
  LET d == Dispatch(user_input)
  IN  (m_sent # <<>> /\ d.kind = "command" /\ d.value.k = "float") =>
        m_sent = d.command \o <<",">> \o TypedNumber \o <<",">> \o d.unit
                   \o <<"\n">>


\* A step of the monitor that reads one line from the operator.
OperatorTyped == inputsLeft' = inputsLeft - 1

\* C11: a typed speed <v> with v below 0 or above 100 writes nothing -- the
\* last line on the wire stays what it was -- and a typed speed <v> writes
\* nothing but the SPEED line of a v with 0 <= v <= 100.
C11_SpeedOutOfRangeRejected ==
  [][OperatorTyped =>
       LET u == Lower(Strip(user_input'))
           f == ParseFloat(SecondToken(u))
       IN  (StartsWith(u, K_speed) /\ f.ok) =>
             IF 0 <= f.n /\ f.n <= 100 * 10
             THEN m_sent' \in {<<>>, EncodeLine(S_SPEED, FloatV(f.n), S_percent)}
             ELSE m_sent' = <<>> /\ m_last' = m_last]_vars

\* C11 witness: speed 150 was typed after a line had been written; nothing
\* was written for it and the monitor is back at its prompt.
C11_Witness ==
  /\ user_input = K_speed \o <<"1", "5", "0">>
  /\ m_pc = "m_prompt"
  /\ m_sent = <<>>
  /\ m_last # <<>>
  /\ m_ser = "open"

\* The verbs of the monitor that take a number.
NumberVerbs == {K_forward, K_backward, K_left, K_right, K_speed}

\* The words of the monitor that stand alone.
PlainWords == {K_quit, K_exit, K_q, K_help, K_clear, K_status, K_stop}

\* A typed line, stripped and lowered, that is no word of the grammar, or a
\* verb with a number whose number is missing or is no number.
NotInGrammar(u) ==
  /\ u # <<>>
  /\ u \notin PlainWords
  /\ ~StartsWith(u, K_raw)
  /\ \A v \in NumberVerbs :
       StartsWith(u, v) => ~ParseFloat(SecondToken(u)).ok

Orderings(ps) ==
  {q \in [1..Len(ps) -> {ps[i] : i \in 1..Len(ps)}] :
     \A i \in 1..Len(ps) : \E j \in 1..Len(ps) : q[j] = ps[i]}

\* The places on the priority list of the paths that ps enumerates.
ListedPlaces(ps) ==
  {k \in 1..Len(priority_ports) :
     \E i \in 1..Len(ps) : ps[i].device = priority_ports[k]}

\* The enumerated path that stands first on the priority list.
HighestListed(ps) ==
  priority_ports[CHOOSE k \in ListedPlaces(ps) :
                   \A l \in ListedPlaces(ps) : k <= l]

\* C13 (as stated): when the enumeration holds a path of the priority list,
\* find_esp32_port_rpi and find_esp32_port return the enumerated path that
\* stands first on the list, in whatever order the ports are enumerated.
C13_HighestListedReturned ==
  (d_pc \in {"rpi", "monitor"} /\ ListedPlaces(ports) # {}) =>
    /\ found = HighestListed(ports)
    /\ \A q \in Orderings(ports) :
         found = IF d_pc = "rpi" THEN find_esp32_port_rpi(q)
                 ELSE find_esp32_port(q)

\* An enumerated port matches step (b), (c) or (d) of the selection order.
MatchesBCD(q) ==
  \/ \E k \in 1..Len(priority_ports) : q.device = priority_ports[k]
  \/ q.keyword
  \/ GenericUsb(q.device)

\* C14 (as stated): when the GPIO step applies or an enumerated port matches
\* the priority list, a vendor keyword or a USB serial path, the path
\* find_esp32_port_rpi returns is the same for every order of the
\* enumeration.
C14_OrderIndependent ==
  (/\ d_pc = "rpi"
   /\ \/ GPIO_UART_ENABLE /\ s0_exists /\ enable_uart
      \/ \E i \in 1..Len(ports) : MatchesBCD(ports[i]))
    => \A q \in Orderings(ports) : find_esp32_port_rpi(q) = found

\* The enumerated USB serial paths of the priority list.
ListedUsb(ps) == {k \in ListedPlaces(ps) : priority_ports[k] # "/dev/ttyS0"}

\* C15 (as stated): find_esp32_port_rpi returns /dev/ttyS0 ahead of an
\* enumerated USB serial path only when the GPIO flag is set, the node exists
\* and the boot configuration enables the UART; with the flag off and a USB
\* path of the priority list enumerated it returns a USB path of the list;
\* it returns None exactly when nothing is enumerated and the GPIO step does
\* not apply.
C15_GpioOnlyWhenEnabled ==
  d_pc = "rpi" =>
    /\ (/\ found = "/dev/ttyS0"
        /\ \E i \in 1..Len(ports) : GenericUsb(ports[i].device))
         => (GPIO_UART_ENABLE /\ s0_exists /\ enable_uart)
    /\ (~GPIO_UART_ENABLE /\ ListedUsb(ports) # {})
         => \E k \in ListedUsb(ports) : found = priority_ports[k]
    /\ found = "None"
         <=> (ports = <<>> /\ ~(GPIO_UART_ENABLE /\ s0_exists /\ enable_uart))

\* C16: no failure of a channel operation leaves init_serial, send_to_robot,
\* send_command or send_raw as an exception: init_serial returns False after
\* a failed step, send_to_robot returns False after a failed write, flush or
\* poll and after its reconnect attempt, whatever became of the close and of
\* the reopen, the monitor is back at its prompt with a boolean result after
\* every typed line, and the voice controller is left by an exception only
\* through an operator interrupt.
C16_NoFailureEscapes ==
  [][/\ pc' = "crashed" => intrLeft' = intrLeft - 1
     /\ (pc' = "i_return" /\ initFailAt' # "none") => serial_ok' = FALSE
     /\ (pc' = "s_return" /\ failAt' \in {"write", "flush", "poll"})
          => sendResult' = FALSE
     /\ (pc' = "s_return" /\ failAt' = "readline") => sendResult' = TRUE
     /\ OperatorTyped =>
          (m_pc' \in {"m_prompt", "d1_stop"} /\ m_result' \in BOOLEAN)]_vars

\* C16 witness: the poll of send_to_robot failed, the handle was closed, the
\* reopen failed too, and send_to_robot returns False.
C16_Witness ==
  /\ pc = "s_return"
  /\ failAt = "poll"
  /\ attempt = "returned"
  /\ nReopen = 1
  /\ ser = "closed"
  /\ sendResult = FALSE

\* C17: when readline raised on a waiting line during the response loop and
\* nothing else failed, the loop went on to its usual end -- the 3 s window
\* with no response counted, the first poll past the quiet period otherwise
\* -- and send_to_robot returns True with the handle open, nothing closed
\* and nothing reopened.
C17_ReadErrorDropsLine ==
  (pc = "s_return" /\ failAt = "readline") =>
    /\ sendResult = TRUE
    /\ nClose = 0
    /\ nReopen = 0
    /\ attempt = "none"
    /\ ser = "open"
    /\ elapsed = IF response_count = 0 THEN WindowTicks
                 ELSE QuietTicks + PollTicks

\* C17 witness: readline raised on one line, a later line was counted, and
\* send_to_robot returns True.
C17_Witness ==
  /\ pc = "s_return"
  /\ failAt = "readline"
  /\ response_count = 1
  /\ ~devEndless
  /\ devLines = 0
  /\ sendResult = TRUE
  /\ ser = "open"

\* C18: a reply of the dialogue model that encodes no command -- no
\* brace-delimited span, or a span that is not valid JSON -- writes no byte,
\* starts no close or reopen, leaves the connection as it was, and main
\* answers it as dialogue, never with the failure message of a command.
C18_NotACommandIsDialogue ==
  [][/\ (pc = "main_listen" /\ spoken' = "reply")
          => (written' = written /\ ser' = ser /\ nClose' = nClose
              /\ nReopen' = nReopen)
     /\ (pc = "s_return" /\ sendCaller = "cmd" /\ ~command_json.valid
          /\ pc' = "main_loop")
          => (written = <<>> /\ nClose = 0 /\ nReopen = 0 /\ ser' = ser
              /\ spoken' # "failure")]_vars

\* Steps of init_serial and of send_to_robot that work on the channel or on
\* the command text.
InitChannelSteps ==
  {"port", "open", "reset_input_buffer", "reset_output_buffer", "probe",
   "poll"}

SendChannelSteps == {"json", "write", "flush", "poll", "readline"}

\* C19: on a machine where any set_status_led call may fail, no exception
\* leaves the voice controller, and what init_serial and send_to_robot
\* return and write is settled by the channel alone: init_serial returns
\* True exactly when none of its channel steps failed, send_to_robot returns
\* False only with the connection closed at entry or after a failed channel
\* step, and a call that returns True has written exactly the command line.
C19_IndicatorFailureIgnored ==
  /\ pc # "crashed"
  /\ initFailAt \in InitChannelSteps \cup {"none"}
  /\ failAt \in SendChannelSteps \cup {"none"}
  /\ pc = "i_return" => (serial_ok = (initFailAt = "none"))
  /\ pc = "s_return" =>
       /\ sendResult = (written # <<>> /\ failAt \in {"none", "readline"})
       /\ sendResult => written = <<serial_cmd(command_json)>>

\* C19 witness: the indicator could not be driven during a send_to_robot
\* call -- it still shows the error signal where a working one shows ready
\* -- and the call wrote the command line and returns True.
C19_Witness ==
  /\ gpio = "flaky"
  /\ pc = "s_return"
  /\ led = <<FALSE, FALSE>>
  /\ response_count = 0
  /\ written = <<serial_cmd(command_json)>>
  /\ sendResult = TRUE

\* C20: in every state of the voice controller the ready signal
\* (true, true) is shown only while a serial handle is open.
C20_ReadyOnlyWhileConnected ==
  (program = "main_raspy" /\ led = <<TRUE, TRUE>>) => ser = "open"

\* C21: no two tasks read the same connection. In the operator monitor a
\* reader thread is started only when none was started before, a line of
\* the device is consumed only by a step of that thread, and the thread is
\* the only task that ever calls readline -- the main loop, which writes,
\* never does. The voice controller has no second task.
C21_SingleReader ==
  [][/\ (monitor_thread' = "alive" /\ monitor_thread # "alive")
          => monitor_thread = "None"
     /\ m_devLines' # m_devLines => (t_pc = "poll" /\ m_pc' = m_pc)
     /\ m_readers' \subseteq {"thread"}
     /\ program = "main_raspy"
          => (monitor_thread' = "None" /\ m_readers' = {})]_vars

\* C21 witness: the main loop of the monitor has written a command and the
\* reader thread has read a line, on the one connection.
C21_Witness ==
  /\ m_last # <<>>
  /\ m_result = TRUE
  /\ m_readers = {"thread"}
  /\ m_logged > 0
  /\ m_opens = 1

\* C22: once disconnect has set running to False, a reader thread that is
\* alive ends, and a thread that has ended logs no line.
C22_ReaderStopsAfterStop ==
  /\ (~running /\ monitor_thread = "alive") ~> (monitor_thread = "dead")
  /\ [][monitor_thread = "dead" => m_logged' = m_logged]_vars

\* C22 witness: the reader thread logged a line, disconnect signalled the
\* stop while the thread was alive, and the thread has ended with the
\* handle still open.
C22_Witness ==
  /\ running = FALSE
  /\ monitor_thread = "dead"
  /\ m_logged > 0
  /\ m_pc = "d1_join"
  /\ m_ser = "open"

\* The steps of main's own call of disconnect.
SecondDisconnect == m_pc \in {"d2_stop", "d2_join", "d2_close"}

\* C23: a step of main's call of disconnect taken with the handle already
\* closed by interactive_mode's call, or never opened, raises nothing and
\* changes nothing but the position in the call: the handle, the running
\* flag, the reader thread and everything written stay as they were.
C23_DisconnectIdempotent ==
  [][(SecondDisconnect /\ m_ser # "open" /\ m_pc' # m_pc) =>
       /\ m_pc' \in {"d2_join", "d2_close", "m_done"}
       /\ <<m_ser, running, monitor_thread, t_pc, m_opens, m_last, m_sent,
            m_result, m_logged, m_devLines, m_readers>>'
          = <<m_ser, running, monitor_thread, t_pc, m_opens, m_last, m_sent,
              m_result, m_logged, m_devLines, m_readers>>]_vars

\* C23 witness: main's call of disconnect has run to its end after the call
\* of interactive_mode had closed the handle.
C23_Witness ==
  /\ m_pc = "m_done"
  /\ m_ser = "closed"
  /\ m_opens = 1
  /\ running = FALSE
  /\ monitor_thread = "dead"

\* C24: an operator interrupt that arrives while the voice controller is in
\* the response collection of send_to_robot, in the handshake collection of
\* init_serial or in the reconnect backoff leads to the shutdown sequence.
C24_InterruptLeadsToShutdown ==
  [][(intrLeft' = intrLeft - 1 /\ pc \in {"s_loop", "i_loop", "s_backoff"})
       => pc' = "finally"]_vars

\* No send_to_robot call and no init_serial call is under way.
BetweenCalls == pc \in {"main_loop", "main_listen", "finally", "done"}

\* C25 (as stated): over the send_to_robot calls made so far, the reopen
\* attempts are as many as the write and flush failures.
C25_ReopenPerWriteFailure ==
  BetweenCalls => cycles.reopened = cycles.write_failed

\* C25 (amended): every failure of write, flush or polling starts a cycle
\* of its own, however many came before; a cycle makes its reopen attempt
\* unless its close raised or an interrupt ended its backoff, so that
\* between calls the cycles started are the reopen attempts plus the
\* cycles cut short, and within a call one cycle at most is still open.
C25_CyclePerFailure ==
  /\ cycles.write_failed <= cycles.started
  /\ cycles.reopened + cycles.aborted <= cycles.started
  /\ cycles.started <= cycles.reopened + cycles.aborted + 1
  /\ BetweenCalls => cycles.started = cycles.reopened + cycles.aborted

\* C25 witness: a write failed, the reopen succeeded, and the write of a
\* later call failed and got a reopen attempt of its own.
C25_Witness ==
  /\ cycles.write_failed = 2
  /\ cycles.reopened = 2
  /\ cycles.aborted = 0
  /\ BetweenCalls

RECURSIVE SplitOn(_, _)
\* str.split(sep) for a one-character sep: the fields of s between the seps.
SplitOn(s, sep) ==
  LET at == {i \in 1..Len(s) : s[i] = sep}
  IN  IF at = {} THEN <<s>>
      ELSE LET i == CHOOSE k \in at : \A j \in at : k <= j
           IN  <<SubSeq(s, 1, i - 1)>>
                 \o SplitOn(SubSeq(s, i + 1, Len(s)), sep)

\* A number in tenths, whether Python holds it as int or as float.
Tenths(v) == IF v.k = "int" THEN v.n * 10 ELSE v.n

\* The line without its trailing newline, split on commas.
DecodedFields == SplitOn(SubSeq(c_line, 1, Len(c_line) - 1), ",")

\* C26: the line built for a descriptor with one of the seven names, a
\* number and one of the five units ends with one newline and, without it
\* and split on commas, has three fields: the name, a text that reads back
\* as the same number, and the unit.
C26_SplitGivesTripleBack ==
  (c_pc # "idle" /\ (c_pc = "send_to_robot" => c_keys = AllKeys)) =>
    /\ c_line[Len(c_line)] = "\n"
    /\ Len(DecodedFields) = 3
    /\ DecodedFields[1] = c_cmd.command
    /\ ParseFloat(DecodedFields[2]).ok
    /\ ParseFloat(DecodedFields[2]).n = Tenths(c_cmd.value)
    /\ DecodedFields[3] = c_cmd.unit

\* C26 witness: BACKWARD with the float 2.5 and meter went through
\* send_command.
C26_Witness ==
  /\ c_pc = "send_command"
  /\ c_cmd = [command |-> S_BACKWARD, value |-> FloatV(25), unit |-> S_meter]
  /\ c_line = S_BACKWARD \o <<",", "2", ".", "5", ",">> \o S_meter
                 \o <<"\n">>

\* A line that carries one of the seven names, one of the five units and,
\* for SPEED, a value from 0 to 100.
WellFormedLine(line) ==
  LET f == SplitOn(SubSeq(line, 1, Len(line) - 1), ",")
  IN  /\ Len(f) = 3
      /\ f[1] \in CommandNames
      /\ f[3] \in Units
      /\ f[1] = S_SPEED =>
            /\ ParseFloat(f[2]).ok
            /\ ParseFloat(f[2]).n >= 0
            /\ ParseFloat(f[2]).n <= SpeedMax * 10

\* C27: every line the voice controller has put on the channel is a
\* well-formed command: a name of the seven, a unit of the five, and a
\* SPEED value within 0 to 100.
C27_WrittenLinesWellFormed ==
  program = "main_raspy" =>
    \A i \in 1..Len(written) : WellFormedLine(written[i])

\* init_serial returns True from the end of its handshake loop.
AfterHandshake == pc = "i_return" /\ serial_ok /\ initFailAt = "none"

\* C28: the collection of startup lines in init_serial ends 3 s after its
\* start when no line with text came, and otherwise at the first poll after
\* the quiet period of 1 s without a further line.
C28_HandshakeQuietWindow ==
  AfterHandshake =>
    IF startup_messages = 0
    THEN /\ elapsed >= WindowTicks
         /\ elapsed < WindowTicks + HandshakePollTicks
    ELSE /\ elapsed > QuietTicks
         /\ elapsed <= QuietTicks + HandshakePollTicks

\* C29: init_serial shows connecting (true,false) when it goes on from its
\* entry, and at its return the indicator shows the last signal it set:
\* ready (true,true) when it returns True, error (false,false) when it
\* returns False, whether no port was found or a step of the open or of the
\* handshake raised.
C29_InitSerialSignals ==
  /\ [](pc = "i_return" =>
          led = IF serial_ok THEN <<TRUE, TRUE>> ELSE <<FALSE, FALSE>>)
  /\ [][(pc = "i_entry" /\ pc' = "i_open") => led' = <<TRUE, FALSE>>]_vars

\* C29 witness: init_serial is about to return False because no port was
\* found, the error signal shown.
C29_Witness ==
  /\ pc = "i_return"
  /\ ~serial_ok
  /\ initFailAt = "port"
  /\ led = <<FALSE, FALSE>>

\* C30: the voice controller opens a handle only while it holds no open
\* one -- at start-up, or in a reconnect attempt after the close of the old
\* handle succeeded -- and a close that raised ends the attempt with the
\* old handle still the only one and nothing opened.
C30_OneHandleAtATime ==
  /\ [](pc \in {"s_backoff", "i_open"} => ser # "open")
  /\ [][(pc = "i_open" /\ ser' = "open") => ser \in {"None", "closed"}]_vars
  /\ [][(pc = "s_close" /\ attempt' = "close_raised")
          => (pc' = "s_return" /\ ser' = ser /\ nReopen' = 0)]_vars

\* C30 witness: in a reconnect attempt the old handle was closed and
\* init_serial has opened the new one.
C30_Witness ==
  /\ initCaller = "reconnect"
  /\ pc = "i_settle"
  /\ attempt = "init_serial"
  /\ nClose = 1
  /\ ser = "open"

\* C31: once SERIAL_PORT holds a path no step changes it, so the discovery
\* is not run again, and every open -- the reopen of a reconnect attempt
\* included -- is made with SERIAL_PORT holding that path.
C31_PortResolvedOnce ==
  /\ [][SERIAL_PORT # "None" => SERIAL_PORT' = SERIAL_PORT]_vars
  /\ [](pc \in {"i_open", "i_settle"} => SERIAL_PORT # "None")

\* C31 witness: a reconnect attempt is about to reopen, on the path the
\* start-up call resolved.
C31_Witness ==
  /\ initCaller = "reconnect"
  /\ pc = "i_open"
  /\ nClose = 1
  /\ ser = "closed"
  /\ SERIAL_PORT = "/dev/ttyUSB0"

\* Statements of send_to_robot past its test of the handle.
SendWorking ==
  {"s_flash", "s_write", "s_flush", "s_sleep", "s_loop", "s_close",
   "s_backoff"}

\* C32: once init_serial has returned False -- at start-up or in a
\* reconnect attempt -- every later send_to_robot call stops at its test of
\* the handle: it writes nothing, closes and reopens nothing, and returns
\* False.
C32_FailedOpenIsPermanent ==
  ~serial_ok =>
    /\ pc \notin SendWorking
    /\ pc = "s_return" => sendResult = FALSE

\* C33: while the operator session waits for a command with running set
\* and the handle open, the reader thread is alive.
C33_ReaderAliveWhileSession ==
  (m_pc = "m_prompt" /\ running /\ m_ser = "open") => monitor_thread = "alive"

\* C34: the operator monitor closes its handle only when the reader thread
\* has left its loop: no step closes the handle while the thread is alive.
C34_CloseAfterReaderLeft ==
  [][(m_ser = "open" /\ m_ser' = "closed") => monitor_thread # "alive"]_vars

\* C35: when interactive_mode returns -- its loop left by quit, by end of
\* input, by an interrupt or by an exception, and the disconnect of its
\* finally block done -- running is False and the handle is closed.
C35_SessionEndsStoppedAndClosed ==
  [][(m_pc = "d1_close" /\ m_pc' = "d2_stop")
       => (~running' /\ m_ser' = "closed")]_vars

\* C35 witness: interactive_mode has returned after lines were typed, the
\* handle closed by its finally block.
C35_Witness ==
  /\ m_pc = "d2_stop"
  /\ inputsLeft < MaxInputs
  /\ ~running
  /\ m_ser = "closed"
  /\ m_opens = 1

\* C36: a send made with no open handle returns False, writes nothing and
\* opens, closes and reopens nothing -- send_to_robot at its test of the
\* handle, send_command and send_raw at theirs.
C36_NoHandleNoSend ==
  /\ [][(pc = "s_entry" /\ ser # "open")
          => /\ pc' = "s_return"
             /\ sendResult' = FALSE
             /\ written' = <<>>
             /\ ser' = ser
             /\ nClose' = nClose
             /\ nReopen' = nReopen]_vars
  /\ [][(m_pc = "api" /\ m_ser # "open" /\ inputsLeft' # inputsLeft)
          => /\ m_result' = FALSE
             /\ m_sent' = <<>>
             /\ m_last' = m_last
             /\ m_ser' = m_ser
             /\ m_opens' = m_opens]_vars

\* C36 witness: send_raw was called on an object that never connected and
\* returned False with nothing written.
C36_Witness ==
  /\ m_pc = "api"
  /\ m_ser = "None"
  /\ inputsLeft < MaxInputs
  /\ Dispatch(user_input).kind = "raw"
  /\ m_result = FALSE
  /\ m_sent = <<>>
  /\ m_last = <<>>

\* C37: the line send_to_robot builds takes each field from the JSON object
\* when the object holds its key and otherwise the default -- STOP for the
\* command, 0 for the value, none for the unit -- so an object without a
\* "command" key gives a STOP line.
C37_MissingFieldsDefault ==
  c_pc = "send_to_robot" =>
    /\ Len(DecodedFields) = 3
    /\ DecodedFields[1] =
         (IF "command" \in c_keys THEN c_cmd.command ELSE S_STOP)
    /\ ParseFloat(DecodedFields[2]).ok
    /\ ParseFloat(DecodedFields[2]).n =
         (IF "value" \in c_keys THEN Tenths(c_cmd.value) ELSE 0)
    /\ DecodedFields[3] = (IF "unit" \in c_keys THEN c_cmd.unit ELSE S_none)

\* C37 witness: an object that holds only a value and a unit, meant as a
\* FORWARD of 5 meter, was built into the line STOP,5,meter.
C37_Witness ==
  /\ c_pc = "send_to_robot"
  /\ c_keys = {"value", "unit"}
  /\ c_cmd = [command |-> S_FORWARD, value |-> IntV(5), unit |-> S_meter]
  /\ c_line = S_STOP \o <<",", "5", ",">> \o S_meter \o <<"\n">>

====
